---------------------------- MODULE Spec2Model ----------------------------
(***************************************************************************)
(* A model of the key-transparency auditor: the prefix tree cache, the log *)
(* tree cache, the TransparencyLog that composes them, the snapshot        *)
(* envelope of the storage backends and the audit loop of the client.      *)
(*                                                                         *)
(* SHA-256 and HMAC-SHA256 are modelled as free constructors: a digest is  *)
(* the tuple of its tag and its inputs, so two digests are equal exactly   *)
(* when their preimages are (collision resistance is assumed).             *)
(***************************************************************************)
EXTENDS Integers, Sequences, FiniteSets, TLC

VARIABLES
    log,        \* the TransparencyLog {log_cache, prefix_cache} held in memory
    pending,    \* <<u>> while update u is inside apply_update, <<>> otherwise
    result,     \* what apply_update returned, until the caller has taken it
    before,     \* history: the log as it was when apply_update was called
    nOk,        \* history: the number of apply_update calls that returned Ok
    file,       \* the file of the storage backend
    build,      \* the binary and features the storage module was built with
    loaded,     \* what the last get_head returned, and from which bytes
    commits,    \* history: the bytes of every successful commit_head, in order
    durable,    \* history: the last completed commit_head and what followed it
    bucket,     \* the objects of the bucket of the GCP backend
    put,        \* what the last commit_head of the GCP backend returned
    got,        \* what the last get_head of the GCP backend returned
    tree,       \* a LogTreeCache under inserts
    leaves,     \* history: the leaves inserted into tree, in order
    rooted,     \* what the last LogTreeCache::root of tree returned, and after
                \* how many inserts
    retry,      \* what apply_update returned for a variant of the update that
                \* was accepted last
    signed,     \* the two calls of sign_at_time under comparison, and what
                \* each returned
    stamped,    \* the last call of sign_head: the version of the module, the
                \* wall clock it read, and what it returned
    twin,       \* two logs fed the same updates, each at its own pace
    client_config, \* the ClientConfig the process was started with
    locals,     \* the arguments and the local variables of the one function
                \* of the client that is followed call by call
    pc,         \* where the auditor process stands
    queue,      \* run_audit's queue of prefetch jobs: their start indexes
    syncing,    \* run_audit's flag of the initial catch-up
    resp,       \* the dequeued response: updates still to apply, more, and the
                \* service's log index of the next of them; history: the update
                \* last passed to apply_update
    published,  \* history: the heads that reached the service
    iter,       \* history: response, commit and signature of the current loop
                \* iteration
    boot,       \* history: how the running process started
    crashes     \* the number of crashes so far

-----------------------------------------------------------------------------
(* Bounds of the model *)

\* Depth of the prefix tree: stands for the 256 bits of an Index.
Depth == 2
\* Largest log size to which updates are still delivered.
MaxSize == 3

\* default_batch_size of the configuration, and the largest
\* max_concurrent_requests it is given.
BatchSize == 2
MaxConcurrent == 2
\* Crashes followed in one behaviour.
MaxCrashes == 2

(* Program constants *)
HashLen == 32
SeedLen == 16
\* The largest u32 counter.  TLC's integers are 32-bit signed, so the model
\* lets 2^31 - 1 stand for 2^32 - 1; only "is the maximum" is ever used.
U32Max == 2147483647

-----------------------------------------------------------------------------
(* Byte strings on the wire.  A field of the protobuf message is a byte    *)
(* vector: its length and its content.  An index is the sequence of its    *)
(* bits (Depth of them when well formed).                                  *)

ZeroHash == <<"zero">>
Commitment(n) == <<"commit", n>>

WireHash(h) == [len |-> HashLen, h |-> h]
WireSeed(s) == [len |-> SeedLen, id |-> s]

\* try_into_hash: a Vec<u8> is a Hash iff it holds exactly 32 bytes.
try_into_hash(x) ==
    IF x.len = HashLen THEN [ok |-> TRUE, v |-> x.h] ELSE [ok |-> FALSE, v |-> "Invalid hash"]

\* Mutant: a seed of any length is taken.
try_into_seed_Any(x) == TRUE

\* Vec<u8> -> Seed ([u8; 16])
try_into_seed(x) == x.len = SeedLen

\* Vec<u8> -> Index ([u8; 32]): Depth bits
try_into_index(x) == Len(x) = Depth

-----------------------------------------------------------------------------
(* Hashes of the prefix tree *)

leaf_hash(leaf) == <<"leaf", leaf.index, leaf.counter, leaf.position>>

stand_in_hash(seed, level) == <<"standin", seed, level>>

parent_hash(left, right) == <<"parent", left, right>>

\* bit i (0-based, MSB first) of an index
IndexBit(index, i) == index[i + 1]


-----------------------------------------------------------------------------
(* The wire message AuditorUpdate and its conversion to a PrefixTreeUpdate *)

\* AuditorProof: the oneof {NewTree | DifferentKey | SameKey}, "None" when absent.
NoProof == [kind |-> "None", copath |-> <<>>, old_seed |-> WireSeed(0), counter |-> 0, position |-> 0]
NewTreeProof == [NoProof EXCEPT !.kind = "NewTree"]
DifferentKeyProof(copath, old_seed) ==
    [NoProof EXCEPT !.kind = "DifferentKey", !.copath = copath, !.old_seed = old_seed]
SameKeyProof(copath, counter, position) ==
    [NoProof EXCEPT !.kind = "SameKey", !.copath = copath, !.counter = counter, !.position = position]

AuditorUpdate(real, index, seed, commitment, proof) ==
    [real |-> real, index |-> index, seed |-> seed, commitment |-> commitment, proof |-> proof]

Err(e) == [ok |-> FALSE, err |-> e]

\* copath.into_iter().map(try_into_hash).collect::<Result<Vec<_>, _>>()
CopathOk(copath) == \A i \in 1..Len(copath) : copath[i].len = HashLen
CopathHashes(copath) == [i \in 1..Len(copath) |-> copath[i].h]

\* Mutant: the real flag of NewTree and SameKey is not looked at.
PrefixTreeUpdate_try_from_AllowFake(update) ==
    LET proof == update.proof IN
    CASE proof.kind = "None" -> Err("Missing proof")
      [] proof.kind = "NewTree" ->
            IF ~try_into_index(update.index) THEN Err("Invalid index")
            ELSE IF ~try_into_seed(update.seed) THEN Err("Invalid seed")
            ELSE [ok |-> TRUE, kind |-> "NewTree", real |-> TRUE, index |-> update.index,
                  seed |-> update.seed.id, old_seed |-> 0, copath |-> <<>>,
                  counter |-> 0, position |-> 0]
      [] proof.kind = "DifferentKey" ->
            IF ~try_into_index(update.index) THEN Err("Invalid index")
            ELSE IF ~try_into_seed(update.seed) THEN Err("Invalid seed")
            ELSE IF ~try_into_seed(proof.old_seed) THEN Err("Invalid old seed")
            ELSE IF ~CopathOk(proof.copath) THEN Err("Invalid hash")
            ELSE [ok |-> TRUE, kind |-> "DifferentKey", real |-> update.real,
                  index |-> update.index, seed |-> update.seed.id,
                  old_seed |-> proof.old_seed.id, copath |-> CopathHashes(proof.copath),
                  counter |-> 0, position |-> 0]
      [] proof.kind = "SameKey" ->
            IF ~try_into_index(update.index) THEN Err("Invalid index")
            ELSE IF ~CopathOk(proof.copath) THEN Err("Invalid hash")
            ELSE IF ~try_into_seed(update.seed) THEN Err("Invalid seed")
            ELSE [ok |-> TRUE, kind |-> "SameKey", real |-> TRUE, index |-> update.index,
                  seed |-> update.seed.id, old_seed |-> 0,
                  copath |-> CopathHashes(proof.copath),
                  counter |-> proof.counter, position |-> proof.position]

\* impl TryFrom<AuditorUpdate> for PrefixTreeUpdate
PrefixTreeUpdate_try_from(update) ==
    LET proof == update.proof IN
    CASE proof.kind = "None" -> Err("Missing proof")
      [] proof.kind = "NewTree" ->
            IF ~update.real THEN Err("Fake update")
            ELSE IF ~try_into_index(update.index) THEN Err("Invalid index")
            ELSE IF ~try_into_seed(update.seed) THEN Err("Invalid seed")
            ELSE [ok |-> TRUE, kind |-> "NewTree", real |-> TRUE, index |-> update.index,
                  seed |-> update.seed.id, old_seed |-> 0, copath |-> <<>>,
                  counter |-> 0, position |-> 0]
      [] proof.kind = "DifferentKey" ->
            IF ~try_into_index(update.index) THEN Err("Invalid index")
            ELSE IF ~try_into_seed(update.seed) THEN Err("Invalid seed")
            ELSE IF ~try_into_seed(proof.old_seed) THEN Err("Invalid old seed")
            ELSE IF ~CopathOk(proof.copath) THEN Err("Invalid hash")
            ELSE [ok |-> TRUE, kind |-> "DifferentKey", real |-> update.real,
                  index |-> update.index, seed |-> update.seed.id,
                  old_seed |-> proof.old_seed.id, copath |-> CopathHashes(proof.copath),
                  counter |-> 0, position |-> 0]
      [] proof.kind = "SameKey" ->
            IF ~update.real THEN Err("Fake update")
            ELSE IF ~try_into_index(update.index) THEN Err("Invalid index")
            ELSE IF ~CopathOk(proof.copath) THEN Err("Invalid hash")
            ELSE IF ~try_into_seed(update.seed) THEN Err("Invalid seed")
            ELSE [ok |-> TRUE, kind |-> "SameKey", real |-> TRUE, index |-> update.index,
                  seed |-> update.seed.id, old_seed |-> 0,
                  copath |-> CopathHashes(proof.copath),
                  counter |-> proof.counter, position |-> proof.position]

-----------------------------------------------------------------------------
(* PrefixProof: a value on the direct path to index at height Len(copath)  *)

PrefixLeaf(index, counter, position) ==
    [index |-> index, counter |-> counter, position |-> position]

\* PrefixProof::fake.  copath.len() - 1 is a usize subtraction: on an empty
\* copath it aborts in a build with overflow checks and wraps otherwise, and
\* the wrapped value does not fit the u8 level.
PrefixProof_fake(index, copath, seed, checks) ==
    IF Len(copath) = 0
    THEN IF checks THEN [st |-> "panic", err |-> "attempt to subtract with overflow"]
                   ELSE [st |-> "err", err |-> "Copath too long"]
    ELSE IF Len(copath) - 1 > Depth - 1
    THEN [st |-> "err", err |-> "Copath too long"]
    ELSE [st |-> "ok", value |-> stand_in_hash(seed, Len(copath) - 1),
          index |-> index, copath |-> copath]

\* Mutant: the stand-ins are taken one level too deep.
PrefixProof_real_LevelOff(leaf, copath, seed) ==
    IF Len(copath) > Depth
    THEN [st |-> "err", err |-> "Copath too long"]
    ELSE [st |-> "ok", value |-> leaf_hash(leaf), index |-> leaf.index,
          copath |-> [i \in 1..Depth |->
                        IF i <= Len(copath) THEN copath[i] ELSE stand_in_hash(seed, i)]]

\* PrefixProof::real: missing copath nodes are filled in from the seed.
PrefixProof_real(leaf, copath, seed) ==
    IF Len(copath) > Depth
    THEN [st |-> "err", err |-> "Copath too long"]
    ELSE [st |-> "ok", value |-> leaf_hash(leaf), index |-> leaf.index,
          copath |-> [i \in 1..Depth |->
                        IF i <= Len(copath) THEN copath[i] ELSE stand_in_hash(seed, i - 1)]]

\* The loop of compute_root: i runs from n - 1 down to 0.
RECURSIVE RootFrom(_, _, _, _)
RootFrom(node, index, copath, n) ==
    IF n = 0 THEN node
    ELSE LET i == n - 1 IN
         IF IndexBit(index, i) = 0
         THEN RootFrom(parent_hash(node, copath[i + 1]), index, copath, i)
         ELSE RootFrom(parent_hash(copath[i + 1], node), index, copath, i)

\* PrefixProof::compute_root
compute_root(proof) == RootFrom(proof.value, proof.index, proof.copath, Len(proof.copath))

-----------------------------------------------------------------------------
(* PrefixTreeCache {head, size} *)

PrefixTreeCache_new == [head |-> ZeroHash, size |-> 0]

PrefixTreeCache_is_initialized(cache) == cache.size > 0

PrefixTreeCache_root(cache) ==
    IF PrefixTreeCache_is_initialized(cache)
    THEN [some |-> TRUE, v |-> cache.head] ELSE [some |-> FALSE, v |-> ZeroHash]

\* Mutant: the counter is carried over as it is.
CounterPlusOne_Same(counter, checks) == [st |-> "ok", v |-> counter]

\* counter + 1 on a u32
CounterPlusOne(counter, checks) ==
    IF counter = U32Max
    THEN IF checks THEN [st |-> "panic", v |-> 0] ELSE [st |-> "ok", v |-> 0]
    ELSE [st |-> "ok", v |-> counter + 1]

\* Mutant: the comparison with the head is left out.
OldRootMatches_Skipped(proof, cache) == TRUE

\* The check of the proof against the current head.
OldRootMatches(proof, cache) == compute_root(proof) = cache.head

\* Mutant: the head is replaced and the size is advanced by two.
Install_DoubleIncrement(cache, proof) ==
    IF proof.st = "ok"
    THEN [st |-> "ok", err |-> "", cache |-> [head |-> compute_root(proof), size |-> cache.size + 2]]
    ELSE [st |-> proof.st, err |-> proof.err, cache |-> cache]

\* self.head = proof?.compute_root(); self.size += 1
Install(cache, proof) ==
    IF proof.st = "ok"
    THEN [st |-> "ok", err |-> "", cache |-> [head |-> compute_root(proof), size |-> cache.size + 1]]
    ELSE [st |-> proof.st, err |-> proof.err, cache |-> cache]

Fail(cache, st, err) == [st |-> st, err |-> err, cache |-> cache]

\* Mutant: a NewTree is installed whether or not the tree is initialized.
NewTreeUpdate_NoCheck(cache, update) ==
    Install(cache, PrefixProof_real(PrefixLeaf(update.index, 0, 0), <<>>, update.seed))

NewTreeUpdate(cache, update) ==
    IF PrefixTreeCache_is_initialized(cache)
    THEN Fail(cache, "err", "Tree already initialized")
    ELSE Install(cache, PrefixProof_real(PrefixLeaf(update.index, 0, 0), <<>>, update.seed))

\* Mutant: the head is overwritten with the reconstructed root before the
\* comparison that rejects the update.
SameKeyUpdate_AssignFirst(cache, update, checks) ==
    IF ~PrefixTreeCache_is_initialized(cache)
    THEN Fail(cache, "err", "Tree not initialized")
    ELSE LET proof == PrefixProof_real(
                 PrefixLeaf(update.index, update.counter, update.position),
                 update.copath, update.seed)
         IN IF proof.st # "ok" THEN Fail(cache, proof.st, proof.err)
            ELSE IF ~OldRootMatches(proof, cache)
            THEN Fail([cache EXCEPT !.head = compute_root(proof)], "err", "Old root mismatch")
            ELSE Install(cache, PrefixProof_real(
                     PrefixLeaf(update.index, CounterPlusOne(update.counter, FALSE).v,
                                update.position),
                     update.copath, update.seed))

SameKeyUpdate(cache, update, checks) ==
    IF ~PrefixTreeCache_is_initialized(cache)
    THEN Fail(cache, "err", "Tree not initialized")
    ELSE LET proof == PrefixProof_real(
                 PrefixLeaf(update.index, update.counter, update.position),
                 update.copath, update.seed)
         IN IF proof.st # "ok" THEN Fail(cache, proof.st, proof.err)
            ELSE IF ~OldRootMatches(proof, cache) THEN Fail(cache, "err", "Old root mismatch")
            ELSE LET next == CounterPlusOne(update.counter, checks) IN
                 IF next.st = "panic"
                 THEN Fail(cache, "panic", "attempt to add with overflow")
                 ELSE Install(cache, PrefixProof_real(
                          PrefixLeaf(update.index, next.v, update.position),
                          update.copath, update.seed))

\* Mutant: the new leaf records position 0 instead of the current size.
DifferentKeyUpdate_PositionZero(cache, update, checks) ==
    IF ~PrefixTreeCache_is_initialized(cache)
    THEN Fail(cache, "err", "Tree not initialized")
    ELSE LET proof == PrefixProof_fake(update.index, update.copath, update.old_seed, checks)
         IN IF proof.st # "ok" THEN Fail(cache, proof.st, proof.err)
            ELSE IF ~OldRootMatches(proof, cache) THEN Fail(cache, "err", "Old root mismatch")
            ELSE IF update.real
            THEN Install(cache, PrefixProof_real(
                     PrefixLeaf(update.index, 0, 0), update.copath, update.seed))
            ELSE Install(cache, PrefixProof_fake(update.index, update.copath, update.seed, checks))

DifferentKeyUpdate(cache, update, checks) ==
    IF ~PrefixTreeCache_is_initialized(cache)
    THEN Fail(cache, "err", "Tree not initialized")
    ELSE LET proof == PrefixProof_fake(update.index, update.copath, update.old_seed, checks)
         IN IF proof.st # "ok" THEN Fail(cache, proof.st, proof.err)
            ELSE IF ~OldRootMatches(proof, cache) THEN Fail(cache, "err", "Old root mismatch")
            ELSE IF update.real
            THEN Install(cache, PrefixProof_real(
                     PrefixLeaf(update.index, 0, cache.size), update.copath, update.seed))
            ELSE Install(cache, PrefixProof_fake(update.index, update.copath, update.seed, checks))

\* PrefixTreeCache::apply_update
PrefixTreeCache_apply_update(cache, update, checks) ==
    CASE update.kind = "NewTree" -> NewTreeUpdate(cache, update)
      [] update.kind = "SameKey" -> SameKeyUpdate(cache, update, checks)
      [] update.kind = "DifferentKey" -> DifferentKeyUpdate(cache, update, checks)

-----------------------------------------------------------------------------
(* LogTreeCache: the roots of the maximal complete subtrees, left to right *)

LogNode(root, size) == [root |-> root, size |-> size]

\* Mutant: the flag byte is left at 0.
as_bytes_NoFlag(node) == <<0, node.root>>

\* LogNode::as_bytes: the flag byte is 1 iff the node is not a leaf.
as_bytes(node) == <<IF node.size # 1 THEN 1 ELSE 0, node.root>>

\* tree_hash: SHA-256(left.as_bytes() || right.as_bytes())
tree_hash(left, right) == <<"tree", as_bytes(left), as_bytes(right)>>

LogTreeCache_new == <<>>

\* Mutant: two nodes are combined without doubling the size.
RECURSIVE InsertLoop_NoDouble(_, _)
InsertLoop_NoDouble(roots, new_node) ==
    IF roots = <<>> THEN <<new_node>>
    ELSE LET x == roots[Len(roots)]
             rest == SubSeq(roots, 1, Len(roots) - 1)
         IN IF x.size = new_node.size
            THEN InsertLoop_NoDouble(rest, LogNode(tree_hash(x, new_node), new_node.size))
            ELSE Append(roots, new_node)

\* The while-let loop of insert: pop the rightmost node while it has the
\* size of the new node.
RECURSIVE InsertLoop(_, _)
InsertLoop(roots, new_node) ==
    IF roots = <<>> THEN <<new_node>>
    ELSE LET x == roots[Len(roots)]
             rest == SubSeq(roots, 1, Len(roots) - 1)
         IN IF x.size = new_node.size
            THEN InsertLoop(rest, LogNode(tree_hash(x, new_node), new_node.size * 2))
            ELSE Append(roots, new_node)

\* Mutant: the new leaf is pushed without combining.
LogTreeCache_insert_NoMerge(roots, entry) == Append(roots, LogNode(entry, 1))

\* LogTreeCache::insert
LogTreeCache_insert(roots, entry) == InsertLoop(roots, LogNode(entry, 1))

RECURSIVE RootLoop(_, _)
RootLoop(roots, root) ==
    IF roots = <<>> THEN root
    ELSE LET x == roots[Len(roots)] IN
         RootLoop(SubSeq(roots, 1, Len(roots) - 1),
                  LogNode(tree_hash(x, root), x.size + root.size))

\* LogTreeCache::root; on an empty cache roots.pop().expect(..) aborts.
LogTreeCache_root(roots) ==
    IF roots = <<>> THEN [st |-> "panic", v |-> ZeroHash]
    ELSE [st |-> "ok",
          v |-> RootLoop(SubSeq(roots, 1, Len(roots) - 1), roots[Len(roots)]).root]

-----------------------------------------------------------------------------
(* TransparencyLog {log_cache, prefix_cache} *)

TransparencyLog_new == [log_cache |-> LogTreeCache_new, prefix_cache |-> PrefixTreeCache_new]

size(l) == l.prefix_cache.size

is_initialized(l) == size(l) > 0

\* SHA-256(prefix_root || commitment)
log_leaf(prefix_root, commitment) == <<"logleaf", prefix_root, commitment>>

\* After the prefix cache advanced: take its root, hash the leaf, insert it.
AppendLeaf(l, cache, commitment) ==
    LET prefix_root == PrefixTreeCache_root(cache) IN
    IF ~prefix_root.some
    THEN [st |-> "err", err |-> "Prefix tree not initialized",
          log |-> [l EXCEPT !.prefix_cache = cache]]
    ELSE [st |-> "ok", err |-> "",
          log |-> [log_cache |-> LogTreeCache_insert(l.log_cache,
                                     log_leaf(prefix_root.v, commitment)),
                   prefix_cache |-> cache]]

\* TransparencyLog::apply_update: the outcome {st, err} and the log after it.
apply_update(l, update, checks) ==
    LET commitment == try_into_hash(update.commitment) IN
    IF ~commitment.ok THEN [st |-> "err", err |-> "Invalid hash", log |-> l]
    ELSE LET typed == PrefixTreeUpdate_try_from(update) IN
         IF ~typed.ok THEN [st |-> "err", err |-> typed.err, log |-> l]
         ELSE LET r == PrefixTreeCache_apply_update(l.prefix_cache, typed, checks) IN
              IF r.st # "ok"
              THEN [st |-> r.st, err |-> r.err, log |-> [l EXCEPT !.prefix_cache = r.cache]]
              ELSE AppendLeaf(l, r.cache, commitment.v)

\* log_root without the is_initialized guard: the cache is asked directly.
log_root_Unguarded(l) == LogTreeCache_root(l.log_cache)

\* TransparencyLog::log_root
log_root(l) ==
    IF ~is_initialized(l) THEN [st |-> "err", v |-> ZeroHash]
    ELSE LogTreeCache_root(l.log_cache)

-----------------------------------------------------------------------------
(* The snapshot envelope of the storage backends.  Three builds exist: the *)
(* binary "main" wraps the encoded log with an HMAC (and skips the         *)
(* verification under the feature dummy-mac), the binary "signal-auditor"  *)
(* wraps it with a version byte.  An encoded value is the tuple of its tag *)
(* and its content; an envelope is the record of the fields it carries,    *)
(* each an option (the empty sequence when the field is absent).           *)

VERSION == 1

Builds ==
    {[bin |-> "main", dummy_mac |-> FALSE],
     [bin |-> "main", dummy_mac |-> TRUE],
     [bin |-> "signal-auditor", dummy_mac |-> FALSE]}

\* hkdf.expand(b"auditor-mac-key") over the auditor's signing key
MacKey == <<"hkdf", "auditor_key", "auditor-mac-key">>

\* The encoding of the log cache: its roots in order, each as (root, size).
LogTreeCache_serialize(cache) == [i \in 1..Len(cache) |-> <<cache[i].root, cache[i].size>>]
LogTreeCache_deserialize(enc) == [i \in 1..Len(enc) |-> LogNode(enc[i][1], enc[i][2])]
\* The encoding of the prefix cache: the pair (head, size).
PrefixTreeCache_serialize(cache) == <<cache.head, cache.size>>
PrefixTreeCache_deserialize(enc) == [head |-> enc[1], size |-> enc[2]]

\* Mutant: the prefix cache is encoded with the size of the log cache's
\* first node.
to_vec_packed_WrongSize(head) ==
    <<"cbor", LogTreeCache_serialize(head.log_cache),
      <<head.prefix_cache.head,
        IF head.log_cache = <<>> THEN 0 ELSE head.log_cache[1].size>>>>

\* serde_cbor::ser::to_vec_packed(head): the fields of TransparencyLog in
\* the order of their declaration.
to_vec_packed(head) ==
    <<"cbor", LogTreeCache_serialize(head.log_cache),
      PrefixTreeCache_serialize(head.prefix_cache)>>
\* Bytes that decode to no log.
Junk == <<"junk">>

\* serde_cbor::from_slice::<TransparencyLog>
from_slice(payload) ==
    IF payload[1] = "cbor"
    THEN [st |-> "ok",
          log |-> <<[log_cache |-> LogTreeCache_deserialize(payload[2]),
                     prefix_cache |-> PrefixTreeCache_deserialize(payload[3])]>>]
    ELSE [st |-> "err", log |-> <<>>]

\* HMAC-SHA256 of bytes under key
Hmac(key, bytes) == <<"hmac", key, bytes>>

StoredHead(version, log_cache, mac) ==
    [kind |-> "envelope", version |-> version, log_cache |-> log_cache, mac |-> mac]

\* What File::create leaves, and what an interrupted write_all leaves.
EmptyBytes == [kind |-> "empty", version |-> <<>>, log_cache |-> Junk, mac |-> <<>>]
Truncated(bytes) == [bytes EXCEPT !.kind = "torn"]

serialize_head_main(mac_key, head) ==
    LET serialized == to_vec_packed(head) IN
    StoredHead(<<>>, serialized, <<Hmac(mac_key, serialized)>>)

serialize_head_signal_auditor(head) ==
    StoredHead(<<VERSION>>, to_vec_packed(head), <<>>)

serialize_head(b, mac_key, head) ==
    IF b.bin = "main" THEN serialize_head_main(mac_key, head)
    ELSE serialize_head_signal_auditor(head)

DecodeErr(e) == [st |-> "err", err |-> e, log |-> <<>>]

\* mac.verify_slice(&stored_head.mac), compiled out under dummy-mac
VerifyMac(mac_key, stored_head, dummy_mac) ==
    dummy_mac \/ stored_head.mac[1] = Hmac(mac_key, stored_head.log_cache)

\* The envelope of "main" has the fields log_cache and mac; a field it does
\* not declare is skipped by the decoder.
deserialize_head_main(mac_key, dummy_mac, head) ==
    IF head.kind # "envelope" \/ head.mac = <<>> THEN DecodeErr("decode")
    ELSE IF ~VerifyMac(mac_key, head, dummy_mac) THEN DecodeErr("MAC")
    ELSE LET r == from_slice(head.log_cache) IN
         IF r.st = "ok" THEN [st |-> "ok", err |-> "", log |-> r.log]
         ELSE DecodeErr("decode")

\* The envelope of "signal-auditor" has the fields version and log_cache.
deserialize_head_signal_auditor(head) ==
    IF head.kind # "envelope" \/ head.version = <<>> THEN DecodeErr("decode")
    ELSE IF head.version[1] # VERSION THEN DecodeErr("Invalid version")
    ELSE LET r == from_slice(head.log_cache) IN
         IF r.st = "ok" THEN [st |-> "ok", err |-> "", log |-> r.log]
         ELSE DecodeErr("decode")

deserialize_head(b, mac_key, head) ==
    IF b.bin = "main" THEN deserialize_head_main(mac_key, b.dummy_mac, head)
    ELSE deserialize_head_signal_auditor(head)

\* The file of FileBackend: absent, or present with its bytes.
NoFile == [exists |-> FALSE, bytes |-> EmptyBytes]
FileOf(bytes) == [exists |-> TRUE, bytes |-> bytes]

\* FileBackend::get_head.  Ok(None) is st = "ok" with no log; opened tells
\* whether File::open succeeded.
FileBackend_get_head(b, mac_key, f, opened) ==
    IF ~f.exists THEN [st |-> "ok", err |-> "", log |-> <<>>]
    ELSE IF ~opened THEN DecodeErr("io")
    ELSE deserialize_head(b, mac_key, f.bytes)

\* (tree_size, root) of a log, as a signed head carries them.
HeadOf(l) == [tree_size |-> size(l), root |-> log_root(l).v]

\* The k low hexadecimal digits of n, most significant first.
RECURSIVE hex_digits(_, _)
hex_digits(n, k) == IF k = 0 THEN <<>> ELSE Append(hex_digits(n \div 16, k - 1), n % 16)

\* format!("{:016x}", size)
Hex16(n) == hex_digits(n, 16)

\* a comes before b as a string.
RECURSIVE LexLess(_, _)
LexLess(a, b) ==
    IF b = <<>> THEN FALSE
    ELSE IF a = <<>> THEN TRUE
    ELSE IF a[1] # b[1] THEN a[1] < b[1]
    ELSE LexLess(Tail(a), Tail(b))

\* get_head_path: the object name head_{size:016x}_{hex of log_root}, as the
\* pair it is formatted from; the ? on log_root fails for an empty log.
get_head_path(head) ==
    LET r == log_root(head) IN
    IF r.st = "ok" THEN [st |-> "ok", name |-> <<Hex16(size(head)), r.v>>]
    ELSE [st |-> "err", name |-> <<>>]

Object(name, data) == [name |-> name, data |-> data]

\* GcpBackend::commit_head.  sent tells whether the upload request reached
\* the bucket; if_generation_match = 0 refuses a name that already exists.
GcpBackend_commit_head(b, mac_key, objects, head, sent) ==
    LET serialized == serialize_head(b, mac_key, head)
        path == get_head_path(head) IN
    IF path.st # "ok" THEN [st |-> "err", err |-> "log_root", objects |-> objects]
    ELSE IF ~sent THEN [st |-> "err", err |-> "io", objects |-> objects]
    ELSE IF \E o \in objects : o.name = path.name
    THEN [st |-> "err", err |-> "precondition", objects |-> objects]
    ELSE [st |-> "ok", err |-> "", objects |-> objects \cup {Object(path.name, serialized)}]

\* The objects a listing can start with.
LastObjects_First(objects) ==
    {o \in objects : \A x \in objects : ~LexLess(x.name[1], o.name[1])}

\* The objects a listing can end with: names compare as strings, the
\* fixed-width size first.
LastObjects(objects) == {o \in objects : \A x \in objects : ~LexLess(o.name[1], x.name[1])}

\* GcpBackend::get_head.  listed and downloaded tell whether the two
\* requests succeeded, omitted whether the listing of a bucket without
\* objects leaves items out (None) or gives an empty vector, head_object
\* is the last object of the listing.
GcpBackend_get_head(b, mac_key, objects, listed, omitted, head_object, downloaded) ==
    IF ~listed THEN DecodeErr("io")
    ELSE IF objects = {} /\ omitted THEN DecodeErr("Head listing returned none")
    ELSE IF objects = {} THEN DecodeErr("Head listing empty")
    ELSE IF ~downloaded THEN DecodeErr("io")
    ELSE LET r == deserialize_head(b, mac_key, head_object.data) IN
         IF r.st # "ok" THEN r
         ELSE LET path == get_head_path(r.log[1]) IN
              IF path.st # "ok" THEN DecodeErr("log_root")
              ELSE IF path.name # head_object.name
              THEN DecodeErr("Head file path mismatch")
              ELSE r

-----------------------------------------------------------------------------
(* The updates the service may put on the wire.  The proofs offered are    *)
(* those an observer of the current prefix head can assemble (the siblings *)
(* on the path to the index), their truncations, extensions and            *)
(* corruptions, under every seed, counter, position and real flag.         *)

\* The index whose only set bit is bit k (1-based); k = 0 gives all zeros.
IndexK(k) == [i \in 1..Depth |-> IF i = k THEN 1 ELSE 0]
Indexes == {IndexK(k) : k \in 0..Depth}
\* Two seeds are enough to tell the seed of a proof from the seed of its update.
Seeds == {WireSeed(s) : s \in {1, 2}}
Counters == {0, 1}
\* A leaf of position p exists once the log holds p + 1 entries.
Positions == 0..(MaxSize - 2)

\* The siblings met when walking down from node along index, top-down.
RECURSIVE PathSiblings(_, _, _)
PathSiblings(node, index, i) ==
    IF i >= Depth \/ node[1] # "parent" THEN <<>>
    ELSE IF IndexBit(index, i) = 0
         THEN <<node[3]>> \o PathSiblings(node[2], index, i + 1)
         ELSE <<node[2]>> \o PathSiblings(node[3], index, i + 1)

\* The first k siblings, padded with zero hashes when k exceeds their number.
CopathOfLen(sib, k) ==
    [i \in 1..k |-> WireHash(IF i <= Len(sib) THEN sib[i] ELSE ZeroHash)]

\* The same with the last element replaced by a zero hash.
CorruptLast(sib, k) ==
    [i \in 1..k |-> WireHash(IF i < k THEN sib[i] ELSE ZeroHash)]

Copaths(head, index) ==
    LET sib == PathSiblings(head, index, 0) IN
    {CopathOfLen(sib, k) : k \in 0..(Depth + 1)} \cup {CorruptLast(sib, k) : k \in 1..Len(sib)}

Proofs(head, index) ==
    {NewTreeProof}
    \cup {DifferentKeyProof(c, s) : c \in Copaths(head, index), s \in Seeds}
    \cup {SameKeyProof(c, n, p) : c \in Copaths(head, index), n \in Counters, p \in Positions}

\* Updates whose fields all have the right lengths.
WellFormedUpdates(l) ==
    UNION {{AuditorUpdate(real, index, seed, WireHash(Commitment(1)), proof) :
               real \in BOOLEAN, seed \in Seeds, proof \in Proofs(l.prefix_cache.head, index)} :
           index \in Indexes}


\* Updates the log would accept, each with one field given a wrong length
\* or with the proof left out.
Defects == {"commitment", "index", "seed", "old_seed", "copath", "proof"}

Accepted(l) == {u \in WellFormedUpdates(l) : apply_update(l, u, FALSE).st = "ok"}

ShortHash(x) == [x EXCEPT !.len = HashLen - 1]
ShortSeed(x) == [x EXCEPT !.len = SeedLen - 1]

Malform(u, d) ==
    CASE d = "commitment" -> [u EXCEPT !.commitment = ShortHash(@)]
      [] d = "index" -> [u EXCEPT !.index = SubSeq(@, 1, Depth - 1)]
      [] d = "seed" -> [u EXCEPT !.seed = ShortSeed(@)]
      [] d = "old_seed" -> [u EXCEPT !.proof.old_seed = ShortSeed(@)]
      [] d = "copath" -> [u EXCEPT !.proof.copath = Append(@, ShortHash(WireHash(ZeroHash)))]
      [] d = "proof" -> [u EXCEPT !.proof = NoProof]

MalformedUpdates(l) == {Malform(u, d) : u \in Accepted(l), d \in Defects}

Updates(l) == WellFormedUpdates(l) \cup MalformedUpdates(l)

-----------------------------------------------------------------------------
(* The auditor: a PublicConfig {mode, sig_key, vrf_key} and a signing key. *)
(* A key or a hash is 32 bytes; byte i of an opaque value x is the pair    *)
(* <<x, i>>, a byte the code writes itself is its number.  An Ed25519      *)
(* signature is the free term of the key and the message it was made over. *)

DeploymentModes == {"ContactMonitoring", "ThirdPartyManagement", "ThirdPartyAuditing"}

\* impl From<DeploymentMode> for u8
DeploymentMode_into_u8(mode) ==
    CASE mode = "ContactMonitoring" -> 1
      [] mode = "ThirdPartyManagement" -> 2
      [] mode = "ThirdPartyAuditing" -> 3

PublicConfig(mode, sig_key, vrf_key) == [mode |-> mode, sig_key |-> sig_key, vrf_key |-> vrf_key]

Auditor_new(config, key) == [config |-> config, key |-> key]

\* SigningKey::verifying_key
verifying_key(key) == <<"pk", key>>

\* VerifyingKey::as_bytes and Hash::as_slice: the 32 bytes of the value
as_slice(x) == [i \in 1..HashLen |-> <<x, i>>]

\* The k low bytes of n >= 0, most significant first.
RECURSIVE be_bytes(_, _)
be_bytes(n, k) == IF k = 0 THEN <<>> ELSE Append(be_bytes(n \div 256, k - 1), n % 256)

\* u16::to_be_bytes
u16_to_be_bytes(n) == be_bytes(n, 2)

\* u64::to_be_bytes
u64_to_be_bytes(n) == be_bytes(n, 8)

\* i64::to_be_bytes: two's complement, so -t is the complement of t - 1
i64_to_be_bytes(t) ==
    IF t >= 0 THEN be_bytes(t, 8)
    ELSE [i \in 1..8 |-> 255 - be_bytes(-t - 1, 8)[i]]

\* Signer::sign
sign(key, msg) == <<"ed25519", key, msg>>

\* The message a signature was made over.
SignedMessage(signature) == signature[3]

\* The public key block of the message when it is left out in every mode.
AuditorKeyBlock_Never(a) == <<>>

\* The auditor's public key is part of the message in the third mode only.
AuditorKeyBlock(a) ==
    IF a.config.mode = "ThirdPartyAuditing"
    THEN u16_to_be_bytes(Len(as_slice(verifying_key(a.key)))) \o as_slice(verifying_key(a.key))
    ELSE <<>>

(* The wall clock: a SystemTime before the epoch or the Duration since it. *)
Duration(secs, nanos) == [before |-> FALSE, secs |-> secs, nanos |-> nanos]
BeforeEpoch == [before |-> TRUE, secs |-> 0, nanos |-> 0]

\* Duration::as_secs
as_secs(d) == d.secs

\* Duration::as_millis
as_millis(d) == d.secs * 1000 + d.nanos \div 1000000

\* u128 as i64: the value is kept below 2^63, and every clock of the model
\* is far below.
as_i64(n) == n

\* The message of sign_at_time up to the timestamp.
MessageHead(a, tree_size) ==
    <<0, 0>>
    \o <<DeploymentMode_into_u8(a.config.mode)>>
    \o u16_to_be_bytes(Len(as_slice(a.config.sig_key))) \o as_slice(a.config.sig_key)
    \o u16_to_be_bytes(Len(as_slice(a.config.vrf_key))) \o as_slice(a.config.vrf_key)
    \o AuditorKeyBlock(a)
    \o u64_to_be_bytes(tree_size)

\* sign_at_time that reads the wall clock instead of taking the timestamp.
sign_at_time_Now(a, head, tree_size, time) ==
    [tree_size |-> tree_size,
     signature |-> sign(a.key, MessageHead(a, tree_size)
                               \o i64_to_be_bytes(as_i64(as_millis(twin.now)))
                               \o as_slice(head)),
     timestamp |-> as_i64(as_millis(twin.now))]

\* Auditor::sign_at_time (auditor/mod.rs): time is an i64
sign_at_time(a, head, tree_size, time) ==
    [tree_size |-> tree_size,
     signature |-> sign(a.key, MessageHead(a, tree_size) \o i64_to_be_bytes(time) \o as_slice(head)),
     timestamp |-> time]

\* Auditor::sign_at_time of auditor.rs: time is a u64 and the signature alone
\* is returned.
sign_at_time_u64(a, head, tree_size, time) ==
    sign(a.key, MessageHead(a, tree_size) \o u64_to_be_bytes(time) \o as_slice(head))

\* PublicConfig::encode_at_time, called by auditor/local.rs: the message of
\* section 4.5 for the configuration that holds the auditor's public key.
encode_at_time(a, head, tree_size, time) ==
    MessageHead(a, tree_size) \o i64_to_be_bytes(time) \o as_slice(head)

AuditorSources == {"auditor.rs", "auditor/mod.rs", "auditor/local.rs"}

NoTreeHead == <<>>

\* Auditor::sign_head of the three versions of the module.  duration_since
\* fails for a clock before the epoch and unwrap aborts.
sign_head(source, a, head, tree_size, now) ==
    IF now.before THEN [st |-> "panic", head |-> NoTreeHead, signature |-> <<>>]
    ELSE CASE source = "auditor.rs" ->
                LET ts == as_secs(now)
                    sig == sign_at_time_u64(a, head, tree_size, ts) IN
                [st |-> "ok", head |-> NoTreeHead, signature |-> sig]
           [] source = "auditor/mod.rs" ->
                LET ts == as_millis(now)
                    th == sign_at_time(a, head, tree_size, as_i64(ts)) IN
                [st |-> "ok", head |-> <<th>>, signature |-> th.signature]
           [] source = "auditor/local.rs" ->
                LET ts == as_millis(now)
                    msg == encode_at_time(a, head, tree_size, as_i64(ts))
                    sig == sign(a.key, msg) IN
                [st |-> "ok",
                 head |-> <<[tree_size |-> tree_size, signature |-> sig, timestamp |-> as_i64(ts)]>>,
                 signature |-> sig]

-----------------------------------------------------------------------------
(* The log under a stream of apply_update calls *)

vars ==
    <<log, pending, result, before, nOk, file, build, loaded, commits, durable,
      bucket, put, got, tree, leaves, rooted, retry, signed, stamped, twin, client_config,
      locals, pc, queue, syncing, resp, published, iter, boot, crashes>>

coreVars == <<pending, result, before, nOk>>
bucketVars == <<bucket, put, got>>
treeVars == <<tree, leaves, rooted>>
storeVars == <<loaded, commits, durable, bucketVars>>
auditVars == <<pc, queue, syncing, resp, published, iter, boot, crashes>>
signVars == <<signed, stamped, twin, client_config, locals>>

NoResult == [st |-> "none", err |-> "", kind |-> "None"]
NoLoad == [st |-> "none", err |-> "", log |-> <<>>, bytes |-> EmptyBytes, exists |-> FALSE]
\* old: the log of the last completed commit_head; cut: the log of a
\* commit_head cut short since then; touched: the file was rewritten by
\* someone else since then.
NoDurable == [old |-> <<>>, cut |-> <<>>, touched |-> FALSE]
NoPut == [st |-> "none", err |-> "", log |-> <<>>]
\* No get_head yet.  objects is the bucket get_head listed, from the object it read.
NoGot ==
    [st |-> "none", err |-> "", log |-> <<>>, empty |-> FALSE, objects |-> {},
     from |-> [name |-> <<>>, data |-> <<>>]]
NoRoot == [n |-> 0, st |-> "none", v |-> ZeroHash]
NoRetry == [how |-> "none", bit |-> 0, st |-> "none", err |-> "", same |-> FALSE]
\* ClientConfig: max_concurrent_requests
ClientConfig(jobs) == [max_concurrent_requests |-> jobs]
DefaultConfig == ClientConfig(MaxConcurrent)
NoCall == <<>>
\* No function of the client is followed on its own.
NoLocals == [fn |-> "none"]
NoSigned == [first |-> NoCall, second |-> NoCall]
NoStamp == <<>>
NoReplica == [log |-> TransparencyLog_new, outs |-> <<>>]
NoTwin ==
    [feed |-> <<>>, checks |-> FALSE, a |-> NoReplica, b |-> NoReplica, now |-> Duration(0, 0)]
NoResponse == [n |-> 0, more |-> FALSE, at |-> 0, passed |-> <<>>]
NoIter ==
    [fetched |-> FALSE, committed |-> <<>>, failed |-> FALSE, signed |-> <<>>, stored |-> <<>>,
     err |-> ""]
NoBoot == [head |-> "unset", fresh |-> FALSE, applied |-> FALSE, signed |-> FALSE]

\* No call of apply_update is being followed.
CoreIdle == pending = <<>> /\ result = NoResult /\ before = TransparencyLog_new /\ nOk = 0
\* No storage backend is being followed.
StoreIdle ==
    /\ loaded = NoLoad /\ commits = <<>> /\ durable = NoDurable
    /\ bucket = {} /\ put = NoPut /\ got = NoGot
\* No separate log tree is being followed.
TreeIdle == tree = LogTreeCache_new /\ leaves = <<>> /\ rooted = NoRoot /\ retry = NoRetry
\* No auditor signs and no second log is being followed.
SignIdle == signed = NoSigned /\ stamped = NoStamp /\ twin = NoTwin
            /\ client_config = DefaultConfig /\ locals = NoLocals
\* No auditor process is being followed.
AuditIdle ==
    /\ pc = "none" /\ queue = <<>> /\ syncing = FALSE /\ resp = NoResponse
    /\ published = {} /\ iter = NoIter /\ boot = NoBoot /\ crashes = 0

Init ==
    /\ log = TransparencyLog_new
    /\ pending = <<>>
    /\ result = NoResult
    /\ before = TransparencyLog_new
    /\ nOk = 0
    /\ file = NoFile
    /\ build = [bin |-> "main", dummy_mac |-> FALSE]
    /\ StoreIdle
    /\ TreeIdle
    /\ SignIdle
    /\ AuditIdle

\* The caller hands an update to apply_update.
Call ==
    /\ pending = <<>>
    /\ size(log) < MaxSize
    /\ \E u \in Updates(log) : pending' = <<u>>
    /\ before' = log
    /\ UNCHANGED <<log, result, nOk, file, build, signVars, storeVars, auditVars, treeVars, retry>>

\* TransparencyLog::apply_update runs on the pending update.  An arithmetic
\* overflow aborts or wraps, as the build decides.
ApplyUpdate ==
    /\ pending # <<>>
    /\ result.st = "none"
    /\ \E checks \in BOOLEAN :
        LET r == apply_update(log, pending[1], checks) IN
        /\ log' = r.log
        /\ result' = [st |-> r.st, err |-> r.err, kind |-> pending[1].proof.kind]
        /\ nOk' = IF r.st = "ok" THEN nOk + 1 ELSE nOk
    /\ UNCHANGED <<pending, before, file, build, signVars, storeVars, auditVars, treeVars, retry>>

\* The caller takes the result; the update it moved into the call is gone.
\* An abort ends the process instead.
Return ==
    /\ pending # <<>>
    /\ result.st \in {"ok", "err"}
    /\ pending' = <<>>
    /\ result' = NoResult
    /\ before' = log
    /\ UNCHANGED <<log, nOk, file, build, signVars, storeVars, auditVars, treeVars, retry>>

Next ==
    \/ Call
    \/ ApplyUpdate
    \/ Return

Spec == Init /\ [][Next]_vars

-----------------------------------------------------------------------------
(* The updates the service serves to the auditor: the real NewTree and     *)
(* SameKey updates of one index with an empty copath, under both seeds.    *)
(* Two seeds give two histories whose roots differ at every size.          *)

ServiceUpdates ==
    {AuditorUpdate(TRUE, IndexK(0), seed, WireHash(Commitment(1)), proof) :
        seed \in Seeds,
        proof \in {NewTreeProof} \cup {SameKeyProof(<<>>, n, p) : n \in Counters, p \in Positions}}

-----------------------------------------------------------------------------
(* The storage backend under commits, loads and an adversary who can write *)
(* the stored bytes but does not hold the MAC key.                         *)

InitStore ==
    /\ log = TransparencyLog_new
    /\ CoreIdle
    /\ file = NoFile
    /\ build \in Builds
    /\ StoreIdle
    /\ TreeIdle
    /\ SignIdle
    /\ AuditIdle

\* The log grows by an accepted update.
StoreApply ==
    /\ size(log) < MaxSize
    /\ \E u \in ServiceUpdates :
        LET r == apply_update(log, u, FALSE) IN
        /\ r.st = "ok"
        /\ log' = r.log
    /\ UNCHANGED <<coreVars, file, build, signVars, storeVars, auditVars, treeVars, retry>>

\* FileBackend::commit_head runs to its Ok.
StoreCommit ==
    LET bytes == serialize_head(build, MacKey, log) IN
    /\ file # FileOf(bytes)
    /\ file' = FileOf(bytes)
    /\ commits' = IF commits # <<>> /\ commits[Len(commits)] = bytes
                   THEN commits ELSE Append(commits, bytes)
    /\ durable' = [old |-> <<log>>, cut |-> <<>>, touched |-> FALSE]
    /\ loaded' = NoLoad
    /\ UNCHANGED <<log, coreVars, build, signVars, bucketVars, auditVars, treeVars, retry>>

\* What a process that dies inside commit_head leaves: the file untouched
\* (before File::create), empty (after it), with a part of the bytes (inside
\* write_all) or with all of them.
CutOutcomes(f, bytes) == {f, FileOf(EmptyBytes), FileOf(Truncated(bytes)), FileOf(bytes)}

\* FileBackend::commit_head is cut short by the death of the process.
StoreCommitInterrupted ==
    LET bytes == serialize_head(build, MacKey, log) IN
    /\ durable.cut = <<>>
    /\ \E f \in CutOutcomes(file, bytes) : file' = f
    /\ durable' = [durable EXCEPT !.cut = <<log>>]
    /\ loaded' = NoLoad
    /\ UNCHANGED <<log, coreVars, build, signVars, commits, bucketVars, auditVars, treeVars, retry>>

\* The latest commit is replaced by the bytes of an earlier one.
Rollback ==
    /\ Len(commits) >= 2
    /\ file = FileOf(commits[Len(commits)])
    /\ \E i \in 1..(Len(commits) - 1) :
        /\ commits[i] # commits[Len(commits)]
        /\ file' = FileOf(commits[i])
    /\ durable' = [durable EXCEPT !.cut = <<>>, !.touched = TRUE]
    /\ loaded' = NoLoad
    /\ UNCHANGED <<log, coreVars, build, signVars, commits, bucketVars, auditVars, treeVars, retry>>

\* The MAC of bytes under a key that is not the auditor's.
Forged(bytes) == Hmac(<<"forged">>, bytes)

\* The envelope of the latest commit is rewritten from parts of earlier
\* commits, junk and forged MACs, with any version.
Tamper ==
    /\ commits # <<>>
    /\ file = FileOf(commits[Len(commits)])
    /\ \E v \in {<<>>, <<VERSION>>, <<VERSION + 1>>},
          p \in {commits[i].log_cache : i \in 1..Len(commits)} \cup {Junk} :
        \E m \in {commits[i].mac : i \in 1..Len(commits)} \cup {<<>>, <<Forged(p)>>} :
            /\ file' = FileOf(StoredHead(v, p, m))
            /\ file' # file
    /\ durable' = [durable EXCEPT !.cut = <<>>, !.touched = TRUE]
    /\ loaded' = NoLoad
    /\ UNCHANGED <<log, coreVars, build, signVars, commits, bucketVars, auditVars, treeVars, retry>>

\* FileBackend::get_head
StoreLoad ==
    /\ loaded = NoLoad
    /\ \E opened \in BOOLEAN :
        LET r == FileBackend_get_head(build, MacKey, file, opened) IN
        loaded' = [st |-> r.st, err |-> r.err, log |-> r.log,
                   bytes |-> file.bytes, exists |-> file.exists]
    /\ UNCHANGED <<log, coreVars, file, build, signVars, commits, durable, bucketVars, auditVars,
                   treeVars, retry>>

NextStore ==
    \/ StoreApply
    \/ StoreCommit
    \/ StoreCommitInterrupted
    \/ Rollback
    \/ Tamper
    \/ StoreLoad

SpecStore == InitStore /\ [][NextStore]_vars

-----------------------------------------------------------------------------
(* An accepted update followed by a second call of apply_update: with the  *)
(* same update on the new state, or with a variant of it on the state the  *)
(* update was accepted in.                                                 *)

\* The update with the last element of its copath removed.
Truncate(u) == [u EXCEPT !.proof.copath = SubSeq(@, 1, Len(@) - 1)]

\* The update with bit k (1-based, MSB first) of its index flipped.
FlipBit(u, k) == [u EXCEPT !.index[k] = 1 - @]

Outcome(how, bit, r, l) ==
    [how |-> how, bit |-> bit, st |-> r.st, err |-> r.err, same |-> r.log = l]

\* apply_update accepts an update; before keeps the state it was applied to.
RetryAccept ==
    /\ size(log) < MaxSize
    /\ \E u \in WellFormedUpdates(log) :
        LET r == apply_update(log, u, FALSE) IN
        /\ r.st = "ok"
        /\ before' = log
        /\ log' = r.log
        /\ pending' = <<u>>
        /\ result' = [st |-> r.st, err |-> r.err, kind |-> u.proof.kind]
    /\ nOk' = nOk + 1
    /\ retry' = NoRetry
    /\ UNCHANGED <<file, build, signVars, storeVars, auditVars, tree, leaves, rooted>>

\* The accepted update is handed to apply_update once more.
RetryReplay ==
    /\ pending # <<>> /\ retry = NoRetry
    /\ \E checks \in BOOLEAN :
        LET r == apply_update(log, pending[1], checks) IN
        /\ retry' = Outcome("replay", 0, r, log)
        /\ log' = r.log
    /\ UNCHANGED <<coreVars, file, build, signVars, storeVars, auditVars, tree, leaves, rooted>>

\* apply_update on the earlier state with the copath cut by one.
RetryTruncated ==
    /\ pending # <<>> /\ retry = NoRetry
    /\ pending[1].proof.kind \in {"SameKey", "DifferentKey"}
    /\ pending[1].proof.copath # <<>>
    /\ \E checks \in BOOLEAN :
        retry' = Outcome("truncate", 0,
                         apply_update(before, Truncate(pending[1]), checks), before)
    /\ UNCHANGED <<log, coreVars, file, build, signVars, storeVars, auditVars, tree, leaves, rooted>>

\* apply_update on the earlier state with one bit of the index flipped.
RetryFlipped ==
    /\ pending # <<>> /\ retry = NoRetry
    /\ pending[1].proof.kind \in {"SameKey", "DifferentKey"}
    /\ \E k \in 1..Depth, checks \in BOOLEAN :
        retry' = Outcome("flip", k, apply_update(before, FlipBit(pending[1], k), checks),
                         before)
    /\ UNCHANGED <<log, coreVars, file, build, signVars, storeVars, auditVars, tree, leaves, rooted>>

NextRetry ==
    \/ RetryAccept
    \/ RetryReplay
    \/ RetryTruncated
    \/ RetryFlipped

SpecRetry == Init /\ [][NextRetry]_vars

-----------------------------------------------------------------------------
(* A LogTreeCache under a stream of inserts, with its root taken at will *)

\* Leaves inserted in one behaviour.
MaxLeaves == 7

\* Two leaves are enough to tell the positions of a tree apart.
LogLeaves == {log_leaf(ZeroHash, Commitment(k)) : k \in {1, 2}}

InitLog ==
    /\ log = TransparencyLog_new
    /\ CoreIdle
    /\ file = NoFile
    /\ build = [bin |-> "main", dummy_mac |-> FALSE]
    /\ StoreIdle
    /\ TreeIdle
    /\ SignIdle
    /\ AuditIdle

\* LogTreeCache::insert
LogInsert ==
    /\ Len(leaves) < MaxLeaves
    /\ \E entry \in LogLeaves :
        /\ tree' = LogTreeCache_insert(tree, entry)
        /\ leaves' = Append(leaves, entry)
    /\ UNCHANGED <<log, coreVars, file, build, signVars, storeVars, rooted, auditVars, retry>>

\* LogTreeCache::root
LogRoot ==
    /\ LET r == LogTreeCache_root(tree) IN
        rooted' = [n |-> Len(leaves), st |-> r.st, v |-> r.v]
    /\ UNCHANGED <<log, coreVars, file, build, signVars, storeVars, tree, leaves, auditVars, retry>>

NextLog ==
    \/ LogInsert
    \/ LogRoot

SpecLog == InitLog /\ [][NextLog]_vars

-----------------------------------------------------------------------------
(* The GCP backend over a bucket under retention lock, beside a file       *)
(* backend that is only read.                                              *)

InitBucket ==
    /\ log = TransparencyLog_new
    /\ CoreIdle
    /\ file = NoFile
    /\ build \in Builds
    /\ StoreIdle
    /\ TreeIdle
    /\ SignIdle
    /\ AuditIdle

\* GcpBackend::commit_head
BucketCommit ==
    /\ \E sent \in BOOLEAN :
        LET r == GcpBackend_commit_head(build, MacKey, bucket, log, sent) IN
        /\ bucket' = r.objects
        /\ put' = [st |-> r.st, err |-> r.err, log |-> <<log>>]
    /\ UNCHANGED <<log, coreVars, file, build, signVars, loaded, commits, durable, got, auditVars,
                   treeVars, retry>>

\* GcpBackend::get_head
BucketLoad ==
    /\ \E listed \in BOOLEAN, omitted \in BOOLEAN, downloaded \in BOOLEAN,
          head_object \in IF bucket = {} THEN {Object(<<>>, EmptyBytes)}
                                           ELSE LastObjects(bucket) :
        LET r == GcpBackend_get_head(build, MacKey, bucket, listed, omitted,
                                     head_object, downloaded) IN
        got' = [st |-> r.st, err |-> r.err, log |-> r.log, empty |-> bucket = {},
                objects |-> bucket, from |-> head_object]
    /\ UNCHANGED <<log, coreVars, file, build, signVars, loaded, commits, durable, bucket, put,
                   auditVars, treeVars, retry>>

\* The object stands under the name of the state it holds.
Genuine(o) ==
    LET r == deserialize_head(build, MacKey, o.data) IN
    /\ r.st = "ok"
    /\ r.log # <<>>
    /\ get_head_path(r.log[1]) = [st |-> "ok", name |-> o.name]

\* Someone who may write to the bucket copies an object to a name of
\* size, before every state or after every state; one such object is followed.
BucketPlant ==
    /\ \A o \in bucket : Genuine(o)
    /\ \E o \in bucket, n \in {0, MaxSize + 1} :
        /\ Hex16(n) # o.name[1]
        /\ bucket' = bucket \cup {Object(<<Hex16(n), o.name[2]>>, o.data)}
    /\ UNCHANGED <<log, coreVars, file, build, signVars, loaded, commits, durable, put, got,
                   auditVars, treeVars, retry>>

NextBucket ==
    \/ StoreApply
    \/ BucketCommit
    \/ BucketLoad
    \/ StoreLoad
    \/ BucketPlant

SpecBucket == InitBucket /\ [][NextBucket]_vars

-----------------------------------------------------------------------------
(* The auditor process: KeyTransparencyClient::new, the loop of main that  *)
(* re-enters run_audit, run_audit itself, and crashes of the process.      *)

Min(a, b) == IF a <= b THEN a ELSE b

\* Mutant: the stored head is dropped and the log starts empty.
unwrap_or_else_AlwaysNew(opt) == [log |-> TransparencyLog_new, fresh |-> TRUE]

\* .unwrap_or_else(|| TransparencyLog::new())
unwrap_or_else(opt) ==
    IF opt = <<>> THEN [log |-> TransparencyLog_new, fresh |-> TRUE]
    ELSE [log |-> opt[1], fresh |-> FALSE]

\* Mutant: an error of get_head is answered with an empty log.
KeyTransparencyClient_new_OrDefault(head) ==
    IF head.st = "err"
    THEN [st |-> "ok", log |-> TransparencyLog_new, fresh |-> TRUE]
    ELSE LET c == unwrap_or_else(head.log) IN [st |-> "ok", log |-> c.log, fresh |-> c.fresh]

\* KeyTransparencyClient::new, from the result of storage.get_head()
KeyTransparencyClient_new(head) ==
    IF head.st = "err"
    THEN [st |-> "err", log |-> TransparencyLog_new, fresh |-> FALSE]
    ELSE LET c == unwrap_or_else(head.log) IN [st |-> "ok", log |-> c.log, fresh |-> c.fresh]

\* Mutant: the result of commit_head is dropped.
AfterCommit_IgnoreError(ok) == "submit"

\* commit_head(..).await.context(..)? : on an error run_audit returns it
AfterCommit(ok) == IF ok THEN "submit" ELSE "backoff"

\* The result of submit_auditor_head is dropped.
AfterSubmit_Swallow(ok) == "enqueue"

\* submit_auditor_head(..).await.context(..)? : on an error run_audit returns it
AfterSubmit(ok) == IF ok THEN "enqueue" ELSE "backoff"

\* The responses of the service to the fetch of AuditRequest {start, limit}:
\* its entries from start on, up to BatchSize of them, and the flag more.
\* The updates are drawn when they are applied.
Responses(l, start) ==
    {[n |-> k, more |-> m, at |-> start, passed |-> <<>>] :
        k \in 0..Min(BatchSize, MaxSize - size(l)), m \in BOOLEAN}

\* The head the file holds, if it holds one.
StoredHeadOf(f) ==
    LET r == FileBackend_get_head(build, MacKey, f, TRUE) IN
    IF r.st = "ok" /\ r.log # <<>> THEN <<HeadOf(r.log[1])>> ELSE <<>>

InitAudit ==
    /\ log = TransparencyLog_new
    /\ CoreIdle
    /\ file = NoFile
    /\ build \in Builds
    /\ StoreIdle
    /\ TreeIdle
    /\ SignIdle
    /\ pc = "start"
    /\ queue = <<>>
    /\ syncing = FALSE
    /\ resp = NoResponse
    /\ published = {}
    /\ iter = NoIter
    /\ boot = NoBoot
    /\ crashes = 0

\* main: KeyTransparencyClient::new(config).await?
Start ==
    /\ pc = "start"
    /\ \E opened \in BOOLEAN :
        LET head == FileBackend_get_head(build, MacKey, file, opened)
            c == KeyTransparencyClient_new(head)
        IN /\ log' = c.log
           /\ boot' = [head |-> IF head.st = "err" THEN "err"
                                ELSE IF head.log = <<>> THEN "none" ELSE "some",
                       fresh |-> c.fresh, applied |-> FALSE, signed |-> FALSE]
           /\ pc' = IF c.st = "ok" THEN "audit" ELSE "exited"
    /\ UNCHANGED <<coreVars, file, build, signVars, storeVars, queue, syncing, resp,
                   published, iter, crashes, treeVars, retry>>

\* run_audit up to its loop: the log end is estimated, the service is
\* connected to, the queue is filled.
RunAudit ==
    /\ pc = "audit"
    /\ \E ok \in BOOLEAN :
        IF ok
        THEN /\ queue' = [i \in 1..client_config.max_concurrent_requests |->
                              size(log) + BatchSize * (i - 1)]
             /\ syncing' = TRUE
             /\ iter' = NoIter
             /\ pc' = "dequeue"
        ELSE /\ pc' = "backoff"
             /\ iter' = [NoIter EXCEPT !.err = "connect"]
             /\ UNCHANGED <<queue, syncing>>
    /\ UNCHANGED <<log, coreVars, file, build, signVars, storeVars, resp, published, boot, crashes,
                   treeVars, retry>>

\* queue.pop_front().unwrap().await.context(..)??
Dequeue ==
    /\ pc = "dequeue"
    /\ IF queue = <<>>
       THEN pc' = "panicked" /\ iter' = NoIter /\ UNCHANGED <<queue, resp>>
       ELSE /\ queue' = Tail(queue)
            /\ \/ /\ pc' = "backoff"
                  /\ resp' = NoResponse
                  /\ iter' = [NoIter EXCEPT !.err = "fetch"]
               \/ \E r \in Responses(log, queue[1]) :
                    /\ resp' = r
                    /\ iter' = [NoIter EXCEPT !.fetched = TRUE]
                    /\ pc' = "apply"
    /\ UNCHANGED <<log, coreVars, file, build, signVars, storeVars, syncing, published, boot, crashes,
                   treeVars, retry>>

\* for update in &response.updates { apply_update(update)? }
Apply ==
    /\ pc = "apply"
    /\ resp.n > 0
    /\ \E u \in ServiceUpdates, checks \in BOOLEAN :
        LET r == apply_update(log, u, checks) IN
        /\ log' = r.log
        /\ resp' = LET passed == <<[index |-> resp.at, size |-> size(log)]>> IN
                   IF r.st = "ok"
                   THEN [resp EXCEPT !.n = @ - 1, !.at = @ + 1, !.passed = passed]
                   ELSE [NoResponse EXCEPT !.passed = passed]
        /\ pc' = CASE r.st = "ok" -> "apply"
                   [] r.st = "err" -> "backoff"
                   [] OTHER -> "panicked"
        /\ iter' = IF r.st = "err" THEN [iter EXCEPT !.err = "apply"] ELSE iter
    /\ boot' = [boot EXCEPT !.applied = TRUE]
    /\ UNCHANGED <<coreVars, file, build, signVars, storeVars, queue, syncing, published, crashes,
                   treeVars, retry>>

\* The end of the loop body when the commit and the submission are entered
\* whatever response.more is.
Tip_Regardless ==
    /\ pc = "apply"
    /\ resp.n = 0
    /\ queue' = IF syncing THEN <<>> ELSE queue
    /\ syncing' = FALSE
    /\ pc' = "create"
    /\ UNCHANGED <<log, coreVars, file, build, signVars, storeVars, resp, published, iter, boot, crashes,
                   treeVars, retry>>

\* if !response.more { drain the queue when syncing; go on to commit }
Tip ==
    /\ pc = "apply"
    /\ resp.n = 0
    /\ IF resp.more
       THEN pc' = "enqueue" /\ UNCHANGED <<queue, syncing>>
       ELSE /\ queue' = IF syncing THEN <<>> ELSE queue
            /\ syncing' = FALSE
            /\ pc' = "create"
    /\ UNCHANGED <<log, coreVars, file, build, signVars, storeVars, resp, published, iter, boot, crashes,
                   treeVars, retry>>

\* commit_head: serialize_head and File::create
CommitCreate ==
    /\ pc = "create"
    /\ \E ok \in BOOLEAN :
        IF ok
        THEN file' = FileOf(EmptyBytes) /\ pc' = "write" /\ UNCHANGED iter
        ELSE /\ UNCHANGED file
             /\ iter' = [iter EXCEPT !.failed = TRUE, !.err = "commit"]
             /\ pc' = AfterCommit(FALSE)
    /\ UNCHANGED <<log, coreVars, build, signVars, storeVars, queue, syncing, resp, published,
                   boot, crashes, treeVars, retry>>

\* commit_head: write_all, flush, sync_all
CommitWrite ==
    /\ pc = "write"
    /\ \E outcome \in {"ok", "torn", "unsynced"} :
        LET bytes == serialize_head(build, MacKey, log) IN
        /\ file' = FileOf(IF outcome = "torn" THEN Truncated(bytes) ELSE bytes)
        /\ iter' = IF outcome = "ok"
                   THEN [iter EXCEPT !.committed = <<HeadOf(log)>>]
                   ELSE [iter EXCEPT !.failed = TRUE, !.err = "commit"]
        /\ pc' = AfterCommit(outcome = "ok")
    /\ UNCHANGED <<log, coreVars, build, signVars, storeVars, queue, syncing, resp, published,
                   boot, crashes, treeVars, retry>>

\* submit_auditor_head: log_root()?, sign_head, set_auditor_head; then the
\* sleep of the poll interval.  The request may reach the service although
\* the client sees an error.
Submit ==
    /\ pc = "submit"
    /\ IF log_root(log).st # "ok"
       THEN /\ pc' = "backoff"
            /\ iter' = [iter EXCEPT !.err = "submit"]
            /\ UNCHANGED <<published, boot>>
       ELSE \E delivered \in BOOLEAN, ok \in BOOLEAN :
            /\ ok => delivered
            /\ iter' = [iter EXCEPT !.signed = <<HeadOf(log)>>, !.stored = StoredHeadOf(file),
                                    !.err = IF ok THEN "" ELSE "submit"]
            /\ boot' = [boot EXCEPT !.signed = TRUE]
            /\ published' = IF delivered THEN published \cup {HeadOf(log)} ELSE published
            /\ pc' = AfterSubmit(ok)
    /\ UNCHANGED <<log, coreVars, file, build, signVars, storeVars, queue, syncing, resp, crashes,
                   treeVars, retry>>

\* queue.push_back(fetch_job(size + batch_size * queue.len()))
Enqueue ==
    /\ pc = "enqueue"
    /\ queue' = Append(queue, size(log) + BatchSize * Len(queue))
    /\ pc' = "dequeue"
    /\ UNCHANGED <<log, coreVars, file, build, signVars, storeVars, syncing, resp, published,
                   iter, boot, crashes, treeVars, retry>>

\* main: run_audit returned an error; sleep, then call it again
Backoff ==
    /\ pc = "backoff"
    /\ pc' = "audit"
    /\ UNCHANGED <<log, coreVars, file, build, signVars, storeVars, queue, syncing, resp,
                   published, iter, boot, crashes, treeVars, retry>>

\* The process dies and is started again: memory is lost, the file stays.
\* A write_all in progress leaves the file empty or with part of the bytes.
Crash ==
    /\ pc # "start"
    /\ crashes < MaxCrashes
    /\ crashes' = crashes + 1
    /\ \E f \in {file} \cup (IF pc = "write"
                             THEN {FileOf(Truncated(serialize_head(build, MacKey, log)))}
                             ELSE {}) : file' = f
    /\ pc' = "start"
    /\ log' = TransparencyLog_new
    /\ queue' = <<>>
    /\ syncing' = FALSE
    /\ resp' = NoResponse
    /\ iter' = NoIter
    /\ boot' = NoBoot
    /\ UNCHANGED <<coreVars, build, signVars, storeVars, published, treeVars, retry>>

NextAudit ==
    \/ Start
    \/ RunAudit
    \/ Dequeue
    \/ Apply
    \/ Tip
    \/ CommitCreate
    \/ CommitWrite
    \/ Submit
    \/ Enqueue
    \/ Backoff
    \/ Crash

SpecAudit == InitAudit /\ [][NextAudit]_vars

-----------------------------------------------------------------------------
(* What the specification says of an update, stated without the code's     *)
(* proof objects.                                                          *)

\* apply_update has returned and the caller has not yet taken the result.
Returned == pending # <<>> /\ result.st # "none"
Update == pending[1]

\* All fields have their lengths and the proof is present.
Structural(u) ==
    /\ u.commitment.len = HashLen
    /\ Len(u.index) = Depth
    /\ u.seed.len = SeedLen
    /\ u.proof.kind # "None"
    /\ u.proof.kind = "DifferentKey" => u.proof.old_seed.len = SeedLen
    /\ u.proof.kind \in {"SameKey", "DifferentKey"} =>
          \A i \in 1..Len(u.proof.copath) : u.proof.copath[i].len = HashLen

\* Section 4.2.2: the copath completed to Depth elements with stand-ins.
FullPath(copath, seed) ==
    [i \in 1..Depth |-> IF i <= Len(copath) THEN copath[i].h ELSE stand_in_hash(seed.id, i - 1)]

\* Section 4.2.1: the node at depth d on the way from the value, which sits
\* at depth Len(path), up to the root at depth 0.
RECURSIVE NodeAt(_, _, _, _)
NodeAt(d, value, index, path) ==
    IF d = Len(path) THEN value
    ELSE IF index[d + 1] = 0
         THEN <<"parent", NodeAt(d + 1, value, index, path), path[d + 1]>>
         ELSE <<"parent", path[d + 1], NodeAt(d + 1, value, index, path)>>

LeafRoot(index, counter, position, copath, seed) ==
    NodeAt(0, <<"leaf", index, counter, position>>, index, FullPath(copath, seed))

StandInRoot(index, copath, seed) ==
    NodeAt(0, <<"standin", seed.id, Len(copath) - 1>>, index,
           [i \in 1..Len(copath) |-> copath[i].h])

\* The proof of u reaches the comparison with the head: u is structurally
\* valid, a SameKey is real, and the copath has an admissible length.
Reconstructible(u) ==
    /\ Structural(u)
    /\ \/ u.proof.kind = "SameKey" /\ u.real /\ Len(u.proof.copath) <= Depth
       \/ u.proof.kind = "DifferentKey" /\ Len(u.proof.copath) \in 1..Depth

\* The root reconstructed from the proof of u.
OldRoot(u) ==
    IF u.proof.kind = "SameKey"
    THEN LeafRoot(u.index, u.proof.counter, u.proof.position, u.proof.copath, u.seed)
    ELSE StandInRoot(u.index, u.proof.copath, u.proof.old_seed)

RECURSIVE SumSizes(_)
SumSizes(roots) == IF roots = <<>> THEN 0 ELSE roots[1].size + SumSizes(Tail(roots))

-----------------------------------------------------------------------------
(* Claims about TransparencyLog::apply_update *)

\* C1: no partial apply: whenever apply_update returns an error, size(),
\* log_root(), the prefix cache (head, size) and the roots of the log cache
\* are what they were before the call.
C1_NoPartialApply ==
    (Returned /\ result.st = "err") =>
        /\ size(log) = size(before)
        /\ log_root(log) = log_root(before)
        /\ log.prefix_cache = before.prefix_cache
        /\ log.log_cache = before.log_cache

\* A proof that does not match the head was rejected on a log of two entries.
C1_Witness ==
    /\ Returned /\ result.st = "err" /\ result.err = "Old root mismatch"
    /\ size(before) = 2 /\ Len(before.log_cache) = 1

\* C2: old-root gate: a SameKey or DifferentKey update is accepted only if
\* the root reconstructed from its proof equals the current prefix head; when
\* the proof of an update to an initialized log reconstructs another root,
\* apply_update returns the old-root-mismatch error and head and size stay.
C2_OldRootGate ==
    (Returned /\ result.kind \in {"SameKey", "DifferentKey"} /\ result.st # "panic") =>
        /\ result.st = "ok" =>
              Reconstructible(Update) /\ OldRoot(Update) = before.prefix_cache.head
        /\ (is_initialized(before) /\ Reconstructible(Update)
            /\ OldRoot(Update) # before.prefix_cache.head) =>
              /\ result.st = "err" /\ result.err = "Old root mismatch"
              /\ log.prefix_cache = before.prefix_cache

\* Both sides of the gate happen: a SameKey passed it on a log of two entries.
C2_Witness ==
    /\ Returned /\ result.kind = "SameKey" /\ result.st = "ok"
    /\ size(before) = 2
    /\ OldRoot(Update) = before.prefix_cache.head

\* C5: monotone size: a successful apply_update increases size() by exactly
\* one, after k successful calls size() is k, and size never decreases.
C5_MonotoneSize ==
    /\ size(log) = nOk
    /\ size(log) >= size(before)
    /\ (Returned /\ result.st = "ok") => size(log) = size(before) + 1

C5_Witness == Returned /\ result.st = "ok" /\ size(log) = 3 /\ nOk = 3

\* C6: composition invariant: the log cache holds exactly prefix_cache.size
\* leaves (the sum of the sizes of its nodes), and it is empty exactly when
\* prefix_cache.size is 0.
C6_Composition ==
    /\ SumSizes(log.log_cache) = log.prefix_cache.size
    /\ (log.log_cache = <<>>) <=> (log.prefix_cache.size = 0)

\* Three leaves are held as a node of two and a node of one.
C6_Witness ==
    /\ log.prefix_cache.size = 3
    /\ Len(log.log_cache) = 2 /\ log.log_cache[1].size = 2 /\ log.log_cache[2].size = 1

\* C7: admissibility by initialization state: a NewTree is accepted only on
\* an empty log and a SameKey or DifferentKey only on an initialized one; a
\* NewTree on an initialized log fails as already initialized and a SameKey
\* or DifferentKey on an empty log as not initialized (for an update that is
\* structurally valid and, for NewTree and SameKey, real), the log is
\* unchanged in both cases, and only a NewTree initializes the log.
C7_Admissibility ==
    Returned =>
        /\ (result.st = "ok" /\ result.kind = "NewTree") => size(before) = 0
        /\ (result.st = "ok" /\ result.kind \in {"SameKey", "DifferentKey"}) => size(before) > 0
        /\ (result.kind = "NewTree" /\ size(before) > 0) =>
              /\ result.st = "err" /\ log = before
              /\ (Structural(Update) /\ Update.real) => result.err = "Tree already initialized"
        /\ (result.kind \in {"SameKey", "DifferentKey"} /\ size(before) = 0) =>
              /\ result.st = "err" /\ log = before
              /\ (Structural(Update) /\ (result.kind = "SameKey" => Update.real))
                    => result.err = "Tree not initialized"
        /\ (~is_initialized(before) /\ is_initialized(log)) =>
              result.kind = "NewTree" /\ result.st = "ok"

\* A second NewTree was refused.
C7_Witness ==
    /\ Returned /\ result.kind = "NewTree" /\ size(before) > 0
    /\ result.err = "Tree already initialized"

-----------------------------------------------------------------------------
(* Claims about the audit loop *)

\* C3: commit-before-publish: in every iteration of the audit loop a head
\* is signed and submitted for (size n, root r) only after commit_head
\* succeeded in that iteration on the log of size n and root r, the file then
\* holding that state; when commit_head fails, the iteration signs and
\* submits nothing.
C3_CommitBeforePublish ==
    /\ iter.signed # <<>> =>
          /\ iter.committed = iter.signed
          /\ iter.stored = iter.signed
    /\ iter.failed => iter.signed = <<>>
    /\ published # {} => file.exists

\* A head of size 2 was submitted and the loop went on.
C3_Witness ==
    /\ pc = "enqueue"
    /\ iter.signed # <<>> /\ iter.signed[1].tree_size = 2
    /\ iter.signed[1] \in published

\* C4: no auditor equivocation across crashes: whatever the service serves
\* and wherever the process crashes and restarts from the stored snapshot,
\* no two published heads have the same tree_size and different roots.
C4_NoEquivocation ==
    \A h1 \in published, h2 \in published :
        h1.tree_size = h2.tree_size => h1.root = h2.root

\* A process restarted from a stored snapshot has published a further head.
C4_Witness ==
    /\ crashes > 0 /\ boot.head = "some" /\ boot.signed
    /\ \E h1 \in published, h2 \in published : h1.tree_size < h2.tree_size
    /\ HeadOf(log) \in published

-----------------------------------------------------------------------------
(* Claims about the stored snapshot *)

\* The bytes are those of a commit older than the latest one.
IsOlderCommit(bytes) ==
    /\ Len(commits) >= 2
    /\ bytes # commits[Len(commits)]
    /\ \E i \in 1..(Len(commits) - 1) : commits[i] = bytes

\* C8: rollback detection: when the stored snapshot has been replaced by an
\* older snapshot the auditor committed earlier, get_head returns an error
\* and not the older state.
C8_RollbackDetected ==
    (loaded.st # "none" /\ loaded.exists /\ IsOlderCommit(loaded.bytes)) =>
        loaded.st = "err"

\* C9: envelope verification: deserialize_head returns an error and no log
\* whenever the envelope's version is not 1 or its mac is not the HMAC of
\* its payload under the MAC key.
C9_EnvelopeVerification ==
    (/\ loaded.st # "none" /\ loaded.exists
     /\ loaded.bytes.kind = "envelope"
     /\ loaded.bytes.version # <<>> /\ loaded.bytes.mac # <<>>
     /\ \/ loaded.bytes.version[1] # VERSION
        \/ loaded.bytes.mac[1] # Hmac(MacKey, loaded.bytes.log_cache)) =>
        loaded.st = "err" /\ loaded.log = <<>>

\* C11: atomic commit: when the process dies at any point inside
\* commit_head(L_new) while the file holds the committed state L_old, the
\* next get_head (its file opened) returns L_old or L_new, never an error,
\* an empty state or a partial snapshot.
C11_AtomicCommit ==
    (/\ loaded.st # "none" /\ loaded.err # "io"
     /\ durable.old # <<>> /\ ~durable.touched /\ durable.cut # <<>>) =>
        /\ loaded.st = "ok"
        /\ loaded.log \in {durable.old, durable.cut}

C13_EmptyStoreLoad ==
    /\ (loaded.st # "none" /\ ~loaded.exists) =>
            (loaded.st = "ok" /\ loaded.log = <<>>)
    /\ (got.st # "none" /\ got.empty) =>
            \/ got.st = "ok" /\ got.log = <<>>
            \/ got.st = "err" /\ got.err = "io"

\* C14: every update passed to apply_update while the log has size s is the
\* service's entry of log index s, whatever the service answers to the
\* prefetched requests.
C14_InOrderDelivery ==
    resp.passed # <<>> => resp.passed[1].index = resp.passed[1].size

-----------------------------------------------------------------------------
(* The left-balanced Merkle tree over a list of leaves, and the binary     *)
(* representation of a count, as the specification defines them.           *)

\* The largest power of two that is at most n (n >= 1).
RECURSIVE HighBit(_)
HighBit(n) == IF n = 1 THEN 1 ELSE 2 * HighBit(n \div 2)

\* The powers of two set in the binary representation of n, descending.
RECURSIVE PowersOfTwo(_)
PowersOfTwo(n) == IF n = 0 THEN <<>> ELSE <<HighBit(n)>> \o PowersOfTwo(n - HighBit(n))

\* The largest power of two strictly less than n (n >= 2).
SplitPoint(n) == HighBit(n - 1)

\* flag || hash of a subtree over k leaves
Flagged(k, hash) == <<IF k = 1 THEN 0 ELSE 1, hash>>

\* The root of the left-balanced Merkle tree over ls (ls not empty).
RECURSIVE MerkleRoot(_)
MerkleRoot(ls) ==
    IF Len(ls) = 1 THEN ls[1]
    ELSE LET k == SplitPoint(Len(ls))
             left == SubSeq(ls, 1, k)
             right == SubSeq(ls, k + 1, Len(ls))
         IN <<"tree", Flagged(k, MerkleRoot(left)), Flagged(Len(ls) - k, MerkleRoot(right))>>

CachedSizes == [i \in 1..Len(tree) |-> tree[i].size]

\* C15: after n inserts the sizes of the cached nodes, left to right, are
\* the powers of two of the binary representation of n in strictly
\* decreasing order; each is a power of two and no two neighbours are equal.
C15_LogTreeShape ==
    /\ CachedSizes = PowersOfTwo(Len(leaves))
    /\ \A i \in 1..Len(tree) : tree[i].size = HighBit(tree[i].size)
    /\ \A i \in 1..(Len(tree) - 1) : tree[i].size > tree[i + 1].size

\* Seven inserts leave the nodes of 4, 2 and 1 leaves; the fourth insert
\* combined twice on the way.
C15_Witness == Len(leaves) = 7 /\ CachedSizes = <<4, 2, 1>>

\* C16: the root taken after inserting l1..ln (n >= 1) is the root of the
\* left-balanced Merkle tree over l1..ln; for n = 1 it is the leaf itself.
C16_CachedRootsSuffice ==
    rooted.n >= 1 =>
        /\ rooted.st = "ok"
        /\ rooted.v = MerkleRoot(SubSeq(leaves, 1, rooted.n))
        /\ rooted.n = 1 => rooted.v = leaves[1]

\* The root of seven leaves, folded from three cached nodes, with both
\* leaf values present.
C16_Witness ==
    /\ rooted.n = 7 /\ rooted.st = "ok" /\ Len(tree) = 3
    /\ \E i, j \in 1..7 : leaves[i] # leaves[j]

-----------------------------------------------------------------------------
(* Claims about the effect of each kind of update *)

\* The errors the specification files under MalformedUpdate.
MalformedUpdate ==
    {"Invalid hash", "Invalid index", "Invalid seed", "Invalid old seed", "Missing proof",
     "Copath too long"}

\* C17: an accepted SameKey sets the head to the root of the leaf {index,
\* counter + 1, position} over the same copath completed from the same seed;
\* the leaf it replaces had the same position and the counter one less.
C17_SameKeyEffect ==
    (Returned /\ result.st = "ok" /\ result.kind = "SameKey") =>
        LET u == Update IN
        /\ log.prefix_cache.head =
              LeafRoot(u.index, u.proof.counter + 1, u.proof.position, u.proof.copath, u.seed)
        /\ before.prefix_cache.head =
              LeafRoot(u.index, u.proof.counter, u.proof.position, u.proof.copath, u.seed)

\* The counter of the first key of the log went from 1 to 2.
C17_Witness ==
    /\ Returned /\ result.st = "ok" /\ result.kind = "SameKey"
    /\ Update.proof.counter = 1 /\ Update.proof.position = 0
    /\ log.prefix_cache.head =
          LeafRoot(Update.index, 2, 0, Update.proof.copath, Update.seed)

\* C18: an accepted real DifferentKey sets the head to the root of the leaf
\* {index, 0, size before the update} over the copath completed from the new
\* seed; an accepted fake one sets it to the root of the stand-in of the new
\* seed at level len(copath) - 1 over the same copath; the size grows by 1.
C18_DifferentKeyEffect ==
    (Returned /\ result.st = "ok" /\ result.kind = "DifferentKey") =>
        LET u == Update IN
        /\ u.real => log.prefix_cache.head =
                        LeafRoot(u.index, 0, size(before), u.proof.copath, u.seed)
        /\ ~u.real => log.prefix_cache.head = StandInRoot(u.index, u.proof.copath, u.seed)
        /\ size(log) = size(before) + 1

\* A fake DifferentKey replaced the deepest stand-in of a log of two entries.
C18_Witness ==
    /\ Returned /\ result.st = "ok" /\ result.kind = "DifferentKey"
    /\ ~Update.real /\ size(before) = 2 /\ Len(Update.proof.copath) = Depth
    /\ Update.seed # Update.proof.old_seed

\* C19: on an empty log a real NewTree succeeds, the size becomes 1, the
\* prefix head is the root of the leaf {index, 0, 0} under the stand-ins of
\* the seed at every level, the log is initialized and log_root is Ok with
\* the hash of prefix head and commitment.
C19_NewTreeEffect ==
    (/\ Returned /\ result.kind = "NewTree" /\ size(before) = 0
     /\ Structural(Update) /\ Update.real) =>
        /\ result.st = "ok"
        /\ size(log) = 1
        /\ log.prefix_cache.head = LeafRoot(Update.index, 0, 0, <<>>, Update.seed)
        /\ log.prefix_cache.head =
              NodeAt(0, <<"leaf", Update.index, 0, 0>>, Update.index,
                     [i \in 1..Depth |-> <<"standin", Update.seed.id, i - 1>>])
        /\ is_initialized(log)
        /\ log_root(log) =
              [st |-> "ok", v |-> <<"logleaf", log.prefix_cache.head, Update.commitment.h>>]

\* A NewTree of an index with a set bit was accepted on the empty log.
C19_Witness ==
    /\ Returned /\ result.st = "ok" /\ result.kind = "NewTree" /\ size(before) = 0
    /\ Update.index = IndexK(1) /\ size(log) = 1

\* C20: a DifferentKey with an empty copath, applied to an initialized log,
\* makes apply_update return a MalformedUpdate error without aborting, and
\* the log is unchanged.
C20_EmptyCopath ==
    (/\ Returned /\ result.kind = "DifferentKey" /\ size(before) > 0
     /\ Structural(Update) /\ Update.proof.copath = <<>>) =>
        /\ result.st = "err"
        /\ result.err \in MalformedUpdate
        /\ log = before

-----------------------------------------------------------------------------
(* Claims about rejected updates *)

\* A field has a wrong length, the proof is missing, or the copath has more
\* elements than the tree has levels.
Malformed(u) ==
    \/ ~Structural(u)
    \/ u.proof.kind \in {"SameKey", "DifferentKey"} /\ Len(u.proof.copath) > Depth

\* C21: a structurally malformed update (a commitment, index, seed, old_seed
\* or copath element of the wrong length, no proof, or a copath longer than
\* the depth of the tree) makes apply_update return an error, and size,
\* prefix head and log roots are what they were.
C21_MalformedRejected ==
    (Returned /\ Malformed(Update)) =>
        /\ result.st = "err"
        /\ size(log) = size(before)
        /\ log.prefix_cache.head = before.prefix_cache.head
        /\ log.log_cache = before.log_cache
        /\ log_root(log) = log_root(before)

\* An update the log would have accepted was refused for its short seed, on
\* an initialized log.
C21_Witness ==
    /\ Returned /\ result.st = "err" /\ result.err = "Invalid seed"
    /\ size(before) = 2 /\ log = before
    /\ apply_update(before, [Update EXCEPT !.seed = WireSeed(@.id)], FALSE).st = "ok"

\* C22: an update with real = false and a NewTree or SameKey proof is
\* rejected in every state and the log is unchanged; the error is the one
\* for fake updates whenever the commitment, which is read first, has its
\* 32 bytes.
C22_FakeOnlyDifferentKey ==
    (Returned /\ ~Update.real /\ Update.proof.kind \in {"NewTree", "SameKey"}) =>
        /\ result.st = "err"
        /\ log = before
        /\ Update.commitment.len = HashLen => result.err = "Fake update"

\* A SameKey whose proof verifies against the head was refused for being
\* fake.
C22_Witness ==
    /\ Returned /\ ~Update.real /\ Update.proof.kind = "SameKey"
    /\ result.err = "Fake update" /\ size(before) > 0
    /\ apply_update(before, [Update EXCEPT !.real = TRUE], FALSE).st = "ok"

-----------------------------------------------------------------------------
(* Claims about a second call after an accepted update *)

\* The update accepted last, and the length of its copath.
Last == pending[1]
LastLen == Len(Last.proof.copath)

\* C23: an update accepted in S giving S', applied again to S', is rejected
\* (as already initialized for a NewTree, as a root mismatch otherwise) and
\* S' is unchanged.
C23_NoReplay ==
    retry.how = "replay" =>
        /\ retry.st = "err"
        /\ retry.err = IF Last.proof.kind = "NewTree" THEN "Tree already initialized"
                                                      ELSE "Old root mismatch"
        /\ retry.same

Mismatch == retry.st = "err" /\ retry.err = "Old root mismatch" /\ retry.same

\* The element cut off is the stand-in that completes the shorter copath.
CutIsStandIn == Last.proof.copath[LastLen].h = <<"standin", Last.seed.id, LastLen - 1>>

\* C24 as stated: whenever a SameKey or DifferentKey with a non-empty copath
\* is accepted in S, the same update with its last copath element removed,
\* applied to S, is rejected with a root mismatch.
C24_TruncationDetected ==
    retry.how = "truncate" => retry.st = "err" /\ retry.err = "Old root mismatch"

\* C24 amended: the truncated update is rejected with a root mismatch when
\* it is a SameKey whose removed element is not the stand-in of its seed at
\* that level, or a DifferentKey with two or more elements; a SameKey whose
\* removed element is that stand-in is accepted; a DifferentKey cut to an
\* empty copath is refused before the comparison, or aborts.  S is unchanged
\* whenever the update is refused.
C24_TruncationAmended ==
    retry.how = "truncate" =>
        /\ (Last.proof.kind = "SameKey" /\ ~CutIsStandIn) => Mismatch
        /\ (Last.proof.kind = "SameKey" /\ CutIsStandIn) => retry.st = "ok"
        /\ (Last.proof.kind = "DifferentKey" /\ LastLen >= 2) => Mismatch
        /\ (Last.proof.kind = "DifferentKey" /\ LastLen = 1) =>
              /\ retry.st \in {"err", "panic"}
              /\ retry.err \in {"Copath too long", "attempt to subtract with overflow"}
              /\ retry.same

\* A SameKey whose copath ends with a real sibling was cut and refused.
C24_Witness ==
    /\ retry.how = "truncate" /\ Last.proof.kind = "SameKey" /\ LastLen = Depth
    /\ Last.proof.copath[LastLen].h[1] = "leaf"
    /\ Mismatch

\* C25 as stated: whenever a SameKey or DifferentKey is accepted in S, the
\* same update with any one bit of its index flipped, applied to S, is
\* rejected with a root mismatch.
C25_IndexBinding ==
    retry.how = "flip" => retry.st = "err" /\ retry.err = "Old root mismatch"

\* C25 amended: the flipped update is rejected with a root mismatch when it
\* is a SameKey, or a DifferentKey whose flipped bit lies within the first
\* len(copath) bits; a DifferentKey with a bit flipped beyond them is
\* accepted.
C25_IndexBindingAmended ==
    retry.how = "flip" =>
        /\ Last.proof.kind = "SameKey" => Mismatch
        /\ (Last.proof.kind = "DifferentKey" /\ retry.bit <= LastLen) => Mismatch
        /\ (Last.proof.kind = "DifferentKey" /\ retry.bit > LastLen) => retry.st = "ok"

\* A DifferentKey with a full copath had its first index bit flipped and
\* was refused.
C25_Witness ==
    /\ retry.how = "flip" /\ Last.proof.kind = "DifferentKey"
    /\ LastLen = Depth /\ retry.bit = 1
    /\ Mismatch

-----------------------------------------------------------------------------
(* C27: log_root() returns an error value, never an abort, on a log of     *)
(* size 0, and returns Ok on every log that at least one successful        *)
(* apply_update has reached.                                               *)
C27_LogRootAvailable ==
    /\ size(log) = 0 => log_root(log).st = "err"
    /\ nOk >= 1 => log_root(log).st = "ok"

\* Two updates were accepted, one was refused since, and the root is there.
C27_Witness ==
    /\ nOk >= 2
    /\ result.st = "err"
    /\ log_root(log).st = "ok"

-----------------------------------------------------------------------------
(* Two calls of sign_at_time, each by an auditor of its own configuration  *)
(* and key, over a head, a size and a timestamp of its own.                *)

OperatorKeys == {verifying_key("S1"), verifying_key("S2")}
SigningKeys == {"A1", "A2"}
Auditors ==
    {Auditor_new(PublicConfig(mode, sig_key, vrf_key), key) :
        mode \in DeploymentModes, sig_key \in OperatorKeys, vrf_key \in OperatorKeys,
        key \in SigningKeys}
SignedHeads == {Commitment(1), Commitment(2)}
\* 1 and 256 have the same bytes in a different order.
SignedSizes == {1, 256}
SignedTimes == {-1, 256}

\* A call of sign_at_time and the AuditorTreeHead it returned.
SignCall(a, head, tree_size, time) ==
    [a |-> a, head |-> head, size |-> tree_size, time |-> time,
     ret |-> sign_at_time(a, head, tree_size, time)]

SignCalls ==
    {SignCall(a, head, n, time) :
        a \in Auditors, head \in SignedHeads, n \in SignedSizes, time \in SignedTimes}

SignFirst ==
    /\ signed.first = NoCall
    /\ \E c \in SignCalls : signed' = [signed EXCEPT !.first = c]
    /\ UNCHANGED <<log, coreVars, file, build, storeVars, treeVars, retry, stamped, twin,
                   client_config, locals,
                   auditVars>>

SignSecond ==
    /\ signed.first # NoCall
    /\ signed.second = NoCall
    /\ \E c \in SignCalls : signed' = [signed EXCEPT !.second = c]
    /\ UNCHANGED <<log, coreVars, file, build, storeVars, treeVars, retry, stamped, twin,
                   client_config, locals,
                   auditVars>>

NextSign ==
    \/ SignFirst
    \/ SignSecond

SpecSign == Init /\ [][NextSign]_vars

-----------------------------------------------------------------------------
(* The layout of the signed message, by offsets.                           *)

Bytes(msg, from, n) == SubSeq(msg, from, from + n - 1)

\* The number a big-endian byte string stands for, unsigned.
RECURSIVE Unsigned(_)
Unsigned(bytes) ==
    IF bytes = <<>> THEN 0
    ELSE Unsigned(SubSeq(bytes, 1, Len(bytes) - 1)) * 256 + bytes[Len(bytes)]

\* The number a big-endian byte string stands for in two's complement.
Signed(bytes) ==
    IF bytes[1] < 128 THEN Unsigned(bytes)
    ELSE -Unsigned([i \in 1..Len(bytes) |-> 255 - bytes[i]]) - 1

ModeByte(mode) ==
    CASE mode = "ContactMonitoring" -> 1
      [] mode = "ThirdPartyManagement" -> 2
      [] mode = "ThirdPartyAuditing" -> 3

LengthPrefix == <<0, HashLen>>
PrefixedLen == 2 + HashLen

\* Where the tree size starts: after the two operator keys, and after the
\* auditor's public key in the third mode.
SizeOffset(mode) ==
    IF mode = "ThirdPartyAuditing" THEN 3 + 3 * PrefixedLen + 1 ELSE 3 + 2 * PrefixedLen + 1

\* msg is the message of section 4.5 for call c.
ExactLayout(c, msg) ==
    LET mode == c.a.config.mode
        at == SizeOffset(mode) IN
    /\ Len(msg) = at - 1 + 8 + 8 + HashLen
    /\ Bytes(msg, 1, 2) = <<0, 0>>
    /\ msg[3] = ModeByte(mode)
    /\ Bytes(msg, 4, 2) = LengthPrefix
    /\ Bytes(msg, 6, HashLen) = as_slice(c.a.config.sig_key)
    /\ Bytes(msg, 6 + HashLen, 2) = LengthPrefix
    /\ Bytes(msg, 8 + HashLen, HashLen) = as_slice(c.a.config.vrf_key)
    /\ mode = "ThirdPartyAuditing" =>
         /\ Bytes(msg, 8 + 2 * HashLen, 2) = LengthPrefix
         /\ Bytes(msg, 10 + 2 * HashLen, HashLen) = as_slice(verifying_key(c.a.key))
    /\ Unsigned(Bytes(msg, at, 8)) = c.size
    /\ Signed(Bytes(msg, at + 8, 8)) = c.time
    /\ Bytes(msg, at + 16, HashLen) = as_slice(c.head)

MessageOf(c) == SignedMessage(c.ret.signature)

BothSigned == signed.first # NoCall /\ signed.second # NoCall

(* C28: the message signed by sign_at_time is 00 00, the mode byte, 00 20   *)
(* and sig_key, 00 20 and vrf_key, 00 20 and the auditor's public key iff   *)
(* the mode is 3, the size in 8 bytes big-endian, the timestamp in 8 bytes  *)
(* big-endian and the 32-byte head; so two calls that differ in the mode,   *)
(* in any key, in the size, in the timestamp or in the head sign different  *)
(* messages.                                                               *)
C28_Transcript ==
    /\ signed.first # NoCall => ExactLayout(signed.first, MessageOf(signed.first))
    /\ signed.second # NoCall => ExactLayout(signed.second, MessageOf(signed.second))
    /\ BothSigned =>
         \/ /\ signed.first.a = signed.second.a
            /\ signed.first.head = signed.second.head
            /\ signed.first.size = signed.second.size
            /\ signed.first.time = signed.second.time
         \/ MessageOf(signed.first) # MessageOf(signed.second)

(* C28, amended: the layout is as stated; two calls that differ in the      *)
(* mode, in sig_key, in vrf_key, in the size, in the timestamp or in the    *)
(* head sign different messages, and so do two calls in mode 3 that differ  *)
(* in the auditor's key; two calls in mode 1 or 2 that differ in the        *)
(* auditor's key alone sign the same message.                              *)
C28_TranscriptAmended ==
    /\ signed.first # NoCall => ExactLayout(signed.first, MessageOf(signed.first))
    /\ signed.second # NoCall => ExactLayout(signed.second, MessageOf(signed.second))
    /\ BothSigned =>
         LET same ==
                /\ signed.first.a.config = signed.second.a.config
                /\ signed.first.head = signed.second.head
                /\ signed.first.size = signed.second.size
                /\ signed.first.time = signed.second.time
                /\ signed.first.a.config.mode = "ThirdPartyAuditing" =>
                       signed.first.a.key = signed.second.a.key
         IN same <=> MessageOf(signed.first) = MessageOf(signed.second)

\* Two calls in mode 3 that differ in the auditor's key alone, and two
\* messages that differ.
C28_Witness ==
    /\ BothSigned
    /\ signed.first.a.config.mode = "ThirdPartyAuditing"
    /\ signed.first.a.config = signed.second.a.config
    /\ signed.first.a.key # signed.second.a.key
    /\ signed.first.head = signed.second.head
    /\ signed.first.size = signed.second.size
    /\ signed.first.time = signed.second.time
    /\ MessageOf(signed.first) # MessageOf(signed.second)

-----------------------------------------------------------------------------
(* sign_head, called at some reading of the wall clock, in each of the      *)
(* three versions of the auditor module.                                   *)

Clocks ==
    {BeforeEpoch} \cup
    {Duration(secs, nanos) : secs \in {0, 1, 1700000}, nanos \in {0, 999999, 500000000}}

SignHead ==
    /\ \E source \in AuditorSources, a \in Auditors, head \in SignedHeads,
          n \in SignedSizes, now \in Clocks :
          /\ a = Auditor_new(PublicConfig(a.config.mode, verifying_key("S1"),
                                           verifying_key("S2")), "A1")
          /\ stamped' = <<[source |-> source, a |-> a, head |-> head, size |-> n, now |-> now,
                           ret |-> sign_head(source, a, head, n, now)]>>
    /\ UNCHANGED <<log, coreVars, file, build, storeVars, treeVars, retry, signed, twin,
                   client_config, locals,
                   auditVars>>

NextStamp == SignHead

SpecStamp == Init /\ [][NextStamp]_vars

\* The timestamp and the size written into the message a signature is over.
TimeIn(signature, mode) == Signed(Bytes(SignedMessage(signature), SizeOffset(mode) + 8, 8))
SizeIn(signature, mode) == Unsigned(Bytes(SignedMessage(signature), SizeOffset(mode), 8))

(* C29: sign_head takes the wall clock in milliseconds since the Unix       *)
(* epoch, as a signed 64-bit value, and the SignedTreeHead it returns       *)
(* carries the signed size as tree_size and, as timestamp, the very value   *)
(* that was written into the signed message.                               *)
C29_TimestampConsistency ==
    (stamped # NoStamp /\ stamped[1].ret.st = "ok") =>
        LET c == stamped[1]
            mode == c.a.config.mode IN
        /\ TimeIn(c.ret.signature, mode) = c.now.secs * 1000 + c.now.nanos \div 1000000
        /\ c.ret.head # NoTreeHead
        /\ c.ret.head[1].tree_size = c.size
        /\ c.ret.head[1].tree_size = SizeIn(c.ret.signature, mode)
        /\ c.ret.head[1].timestamp = TimeIn(c.ret.signature, mode)

-----------------------------------------------------------------------------
(* Two fresh logs of one build, a and b, fed the same updates in the same   *)
(* order, each at its own pace while the wall clock moves.  After each      *)
(* update a log reports the result, size(), log_root() and, over a root,    *)
(* the head signed at the agreed timestamp.                                *)

MaxFeed == 2

TwinUpdates == {u \in ServiceUpdates : u.seed = WireSeed(1)}
TwinClocks == {Duration(1, 0), Duration(2, 0)}
TwinAuditor ==
    Auditor_new(PublicConfig("ThirdPartyAuditing", verifying_key("S1"), verifying_key("S2")),
                "A1")
TwinTime == as_i64(as_millis(Duration(1, 0)))

\* apply_update, then size, log_root and sign_at_time over them.
TwinApply(l, update, checks) ==
    LET r == apply_update(l, update, checks)
        root == log_root(r.log) IN
    [log |-> r.log,
     out |-> [st |-> r.st, err |-> r.err, size |-> size(r.log), root |-> root,
              head |-> IF root.st = "ok"
                       THEN <<sign_at_time(TwinAuditor, root.v, size(r.log), TwinTime)>>
                       ELSE <<>>]]

InitTwin ==
    /\ log = TransparencyLog_new
    /\ CoreIdle
    /\ file = NoFile
    /\ build = [bin |-> "main", dummy_mac |-> FALSE]
    /\ StoreIdle
    /\ TreeIdle
    /\ signed = NoSigned /\ stamped = NoStamp /\ client_config = DefaultConfig
    /\ locals = NoLocals
    /\ \E checks \in BOOLEAN : twin = [NoTwin EXCEPT !.checks = checks]
    /\ AuditIdle

\* The service hands out the next update.
TwinFeed ==
    /\ Len(twin.feed) < MaxFeed
    /\ \E u \in TwinUpdates : twin' = [twin EXCEPT !.feed = Append(@, u)]
    /\ UNCHANGED <<log, coreVars, file, build, storeVars, treeVars, retry, signed, stamped,
                   client_config, locals,
                   auditVars>>

\* One of the logs takes its next update; an abort ends it.
TwinStep ==
    /\ \E r \in {"a", "b"}, now \in TwinClocks :
        LET k == Len(twin[r].outs) + 1 IN
        /\ k <= Len(twin.feed)
        /\ k > 1 => twin[r].outs[k - 1].st # "panic"
        /\ LET s == TwinApply(twin[r].log, twin.feed[k], twin.checks) IN
           twin' = [twin EXCEPT ![r] = [log |-> s.log, outs |-> Append(twin[r].outs, s.out)],
                                !.now = now]
    /\ UNCHANGED <<log, coreVars, file, build, storeVars, treeVars, retry, signed, stamped,
                   client_config, locals,
                   auditVars>>

NextTwin ==
    \/ TwinFeed
    \/ TwinStep

SpecTwin == InitTwin /\ [][NextTwin]_vars

Shorter(s, t) == IF Len(s) <= Len(t) THEN Len(s) ELSE Len(t)

-----------------------------------------------------------------------------
(* C30: the audit loop signs and submits a head only in an iteration whose  *)
(* dequeued response had more == false, and only after every update of      *)
(* that response was applied successfully.                                 *)
C30_SignAtTip ==
    iter.signed # <<>> =>
        /\ iter.fetched
        /\ ~resp.more
        /\ resp.n = 0
        /\ iter.signed[1] = HeadOf(log)

\* A head was signed in an iteration that applied an update of its response;
\* the log holds two entries.
C30_Witness ==
    /\ iter.signed # <<>>
    /\ iter.signed[1].tree_size = 2
    /\ resp.passed # <<>>
    /\ resp.passed[1].size = 1
    /\ ~resp.more

-----------------------------------------------------------------------------
-----------------------------------------------------------------------------
(* The auditor process under each max_concurrent_requests the configuration *)
(* can hold, without crashes.                                              *)

InitQueue ==
    /\ log = TransparencyLog_new
    /\ CoreIdle
    /\ file = NoFile
    /\ build = [bin |-> "main", dummy_mac |-> FALSE]
    /\ StoreIdle
    /\ TreeIdle
    /\ signed = NoSigned /\ stamped = NoStamp /\ twin = NoTwin /\ locals = NoLocals
    /\ \E jobs \in 0..MaxConcurrent : client_config = ClientConfig(jobs)
    /\ pc = "start"
    /\ queue = <<>>
    /\ syncing = FALSE
    /\ resp = NoResponse
    /\ published = {}
    /\ iter = NoIter
    /\ boot = NoBoot
    /\ crashes = 0

NextQueue ==
    \/ Start
    \/ RunAudit
    \/ Dequeue
    \/ Apply
    \/ Tip
    \/ CommitCreate
    \/ CommitWrite
    \/ Submit
    \/ Enqueue
    \/ Backoff

SpecQueue == InitQueue /\ [][NextQueue]_vars

(* C32: at every dequeue of run_audit the queue is not empty; it holds      *)
(* max_concurrent_requests fetch jobs while syncing and one job in steady   *)
(* state, whatever max_concurrent_requests is configured.                  *)
C32_QueueOccupancy ==
    pc = "dequeue" =>
        /\ queue # <<>>
        /\ syncing => Len(queue) = client_config.max_concurrent_requests
        /\ ~syncing => Len(queue) = 1


-----------------------------------------------------------------------------
(* Head selection of the bucket backend.                                   *)

\* Sizes around the places where a hexadecimal digit is carried.
NameSizes == {0, 1, 9, 10, 15, 16, 17, 159, 160, 255, 256, 4095, 4096, 65535, 65536, 2147483647}

\* Names sort as strings in the order of the sizes they are formatted from.
NamesSortBySize == \A a, b \in NameSizes : a < b <=> LexLess(Hex16(a), Hex16(b))

\* The states the objects of a bucket hold.
Held(objects) == {deserialize_head(build, MacKey, o.data).log[1] : o \in objects}

\* C33: object names sort as strings in the order of their sizes; a get_head
\* of the bucket backend that listed a bucket holding only objects written
\* by successful commit_head calls and returned a state returned a committed
\* state of the greatest size; and a get_head that read an object whose
\* state's size and root do not give the object's name returned an error.
C33_HeadSelection ==
    /\ NamesSortBySize
    /\ (got.st = "ok" /\ \A o \in got.objects : Genuine(o)) =>
         /\ Len(got.log) = 1
         /\ got.log[1] \in Held(got.objects)
         /\ \A t \in Held(got.objects) : size(t) <= size(got.log[1])
    /\ (got.st = "ok" /\ got.objects # {}) => Genuine(got.from)

\* get_head chose the larger of two committed states.
C33_Witness ==
    /\ got.st = "ok"
    /\ Cardinality(got.objects) >= 2
    /\ \A o \in got.objects : Genuine(o)
    /\ size(got.log[1]) = 2

\* get_head refused an object standing under another state's name.
C33_Refused ==
    /\ got.st = "err"
    /\ got.err = "Head file path mismatch"
    /\ ~Genuine(got.from)


-----------------------------------------------------------------------------
(* The heads that are signed, and the history behind them.                 *)

\* The log of the client changes by a successful apply_update, by the load
\* of the stored state (or the empty log) at the start, or is lost with the
\* process.
VerifiedStep ==
    \/ log' = log
    \/ /\ pc = "apply"
       /\ \E u \in ServiceUpdates, checks \in BOOLEAN :
            LET r == apply_update(log, u, checks) IN r.st = "ok" /\ log' = r.log
    \/ /\ pc = "start"
       /\ LET head == FileBackend_get_head(build, MacKey, file, TRUE) IN
          log' = IF head.st = "ok" /\ head.log # <<>> THEN head.log[1] ELSE TransparencyLog_new
    \/ pc' = "start" /\ log' = TransparencyLog_new

\* A head that is signed or sent carries size() and log_root() of the log.
SignedStep ==
    LET head == [tree_size |-> size(log), root |-> log_root(log).v] IN
    /\ (iter'.signed # <<>> /\ iter'.signed # iter.signed) =>
          /\ pc = "submit" /\ log' = log /\ log_root(log).st = "ok"
          /\ iter'.signed = <<head>>
    /\ published' # published => (pc = "submit" /\ published' = published \cup {head})

\* After a refused update the invocation has signed and committed nothing,
\* and nothing is written or sent until run_audit is entered again.
RefusedStep ==
    iter.err = "apply" =>
        /\ iter.signed = <<>> /\ iter.committed = <<>>
        /\ pc \in {"backoff", "audit"}
        /\ file' = file /\ published' = published
        /\ iter'.signed = <<>> /\ iter'.committed = <<>>

\* C34: every head submitted carries the size and the root of the client's
\* log, a log that came from the loaded or the empty state by successful
\* apply_update calls only; and once an apply_update has returned an error
\* the invocation signs and commits nothing more.
C34_VerifiedHistory == [][VerifiedStep /\ SignedStep /\ RefusedStep]_vars

\* A head was published, and a later pass of the loop met a refused update.
C34_Witness == published # {} /\ iter.err = "apply" /\ pc = "backoff" /\ size(log) >= 1


-----------------------------------------------------------------------------
(* The order of the sizes that are published.                              *)

\* C35: a head that is submitted has a tree_size at least that of every
\* head published before it, by this process or by a process before a
\* crash and restart.
C35_PublishedSizes ==
    [][(pc = "submit" /\ iter'.signed # <<>>) =>
          \A h \in published : h.tree_size <= iter'.signed[1].tree_size]_vars

\* After a crash the process restarted from the stored snapshot submits a
\* head larger than one published before the crash.
C35_Witness ==
    /\ crashes >= 1
    /\ boot.head = "some"
    /\ boot.signed
    /\ iter.signed # <<>>
    /\ iter.signed[1].tree_size = 3
    /\ \E h \in published : h.tree_size = 1


-----------------------------------------------------------------------------
(* fetch_audit_entries under every max_retries up to MaxRetries, with and  *)
(* without retry, in a build with and without overflow checks.  A u64 is   *)
(* the set of the positions of its one bits.                               *)

MaxRetries == 65

\* 2u64.pow(exp): the power when it fits; past 64 bits the build with
\* overflow checks aborts and the build without them keeps the low 64 bits.
pow2_u64(exp, checks) ==
    IF exp < 64 THEN [st |-> "ok", v |-> {exp}]
    ELSE IF checks THEN [st |-> "panic", v |-> {}]
    ELSE [st |-> "ok", v |-> {}]

\* let mut retries = if retry { config.max_retries } else { 0 };
FetchLocals(max_retries, with_retry, checks) ==
    [fn |-> "fetch_audit_entries", max_retries |-> max_retries, retry |-> with_retry,
     checks |-> checks, retries |-> IF with_retry THEN max_retries ELSE 0,
     requests |-> 0, failed |-> 0, slept |-> <<>>, st |-> "loop"]

\* One pass of the loop of fetch_audit_entries; ok tells whether
\* client.audit(request) answered.  slept lists the sleeps in seconds.
fetch_pass(l, ok) ==
    LET sent == [l EXCEPT !.requests = @ + 1] IN
    IF ok THEN [sent EXCEPT !.st = "ok"]
    ELSE LET seen == [sent EXCEPT !.failed = @ + 1] IN
         IF l.retries > 0
         THEN LET backoff == pow2_u64(l.max_retries - l.retries, l.checks) IN
              IF backoff.st # "ok" THEN [seen EXCEPT !.st = "panicked"]
              ELSE [seen EXCEPT !.slept = Append(@, backoff.v), !.retries = @ - 1]
         ELSE [seen EXCEPT !.st = "err"]

InitFetch ==
    /\ log = TransparencyLog_new
    /\ CoreIdle
    /\ file = NoFile
    /\ build = [bin |-> "main", dummy_mac |-> FALSE]
    /\ StoreIdle
    /\ TreeIdle
    /\ signed = NoSigned /\ stamped = NoStamp /\ twin = NoTwin
    /\ client_config = DefaultConfig
    /\ \E max_retries \in 0..MaxRetries, r \in BOOLEAN, checks \in BOOLEAN :
         locals = FetchLocals(max_retries, r, checks)
    /\ AuditIdle

FetchPass ==
    /\ locals.st = "loop"
    /\ \E ok \in BOOLEAN : locals' = fetch_pass(locals, ok)
    /\ UNCHANGED <<log, coreVars, file, build, storeVars, treeVars, retry, signed, stamped, twin,
                   client_config, auditVars>>

NextFetch == FetchPass

SpecFetch == InitFetch /\ [][NextFetch]_vars

\* What the statement allows of a call that was entered with max_retries
\* and retry: never more than the allowed requests, every sleep before the
\* k-th retry 2^k seconds, and a return, never an abort.
BoundedRetry(l) ==
    LET allowed == IF l.retry THEN l.max_retries + 1 ELSE 1 IN
    /\ l.st # "panicked"
    /\ l.requests <= allowed
    /\ \A k \in 1..Len(l.slept) : l.slept[k] = {k - 1}
    /\ l.st = "ok" => l.failed = l.requests - 1
    /\ l.st = "err" =>
         /\ l.requests = allowed /\ l.failed = allowed
         /\ Len(l.slept) = allowed - 1

\* C36: fetch_audit_entries returns the first successful response; when
\* every request fails it issues exactly max_retries + 1 requests with
\* retry and exactly one without, sleeps 2^k seconds before the k-th retry,
\* and returns the last error; it always returns.
C36_BoundedRetry == BoundedRetry(locals)

\* The same for the max_retries whose last backoff fits 64 bits.
C36_UpTo64 == locals.max_retries <= 64 => BoundedRetry(locals)

\* All requests failed and the last error was returned after 64 retries.
C36_Returned == locals.st = "err" /\ locals.max_retries = 64 /\ locals.requests = 65


-----------------------------------------------------------------------------
(* estimate_log_end against a service whose log has the fixed size E, for  *)
(* the two clients of the repository.                                      *)

MaxLogEnd == 1100
MaxLocal == 2
MaxBehind == 2
\* while high - low > 500
SearchGap == 500
\* fetch_audit_entries(.., low, Some(1000), false)
PollLimit == 1000

Clients == {"bin/main", "src"}

\* The service answers a request at index with entries iff index < E.
Answers(index, E) == index < E

\* let mut low = self.transparency_log.size(); let mut high = 1;
EstimateLocals(client, L, E) ==
    [fn |-> "estimate_log_end", client |-> client, L |-> L, E |-> E, low |-> L, high |-> 1,
     st |-> "double", ret |-> 0, shrinks |-> TRUE]

\* while test_at_index(high) { high *= 2 }
estimate_double(l) ==
    IF Answers(l.high, l.E) THEN [l EXCEPT !.high = @ * 2] ELSE [l EXCEPT !.st = "search"]

\* One pass of the binary search.  bin/main/client.rs: low = mid when mid
\* is answered, high = mid + 1 otherwise; src/client.rs: low = mid + 1 when
\* mid is answered, high = mid otherwise.
estimate_search(l) ==
    IF l.high < l.low THEN [l EXCEPT !.st = "underflow"]
    ELSE IF l.high - l.low > SearchGap
    THEN LET mid == (l.low + l.high) \div 2
             next == IF l.client = "bin/main"
                     THEN IF Answers(mid, l.E) THEN [l EXCEPT !.low = mid]
                                               ELSE [l EXCEPT !.high = mid + 1]
                     ELSE IF Answers(mid, l.E) THEN [l EXCEPT !.low = mid + 1]
                                               ELSE [l EXCEPT !.high = mid]
         IN [next EXCEPT !.shrinks = next.high - next.low < l.high - l.low]
    ELSE [l EXCEPT !.st = "poll"]

\* The last fetch, of up to 1000 entries from low on: its error is returned,
\* and so is an error for an empty response.
estimate_poll(l) ==
    IF ~Answers(l.low, l.E) THEN [l EXCEPT !.st = "err"]
    ELSE LET len == Min(PollLimit, l.E - l.low) IN
         IF len = 0 THEN [l EXCEPT !.st = "err"]
         ELSE [l EXCEPT !.st = "ok", !.ret = l.low + len]

InitEstimate ==
    /\ log = TransparencyLog_new
    /\ CoreIdle
    /\ file = NoFile
    /\ build = [bin |-> "main", dummy_mac |-> FALSE]
    /\ StoreIdle
    /\ TreeIdle
    /\ signed = NoSigned /\ stamped = NoStamp /\ twin = NoTwin
    /\ client_config = DefaultConfig
    /\ \E client \in Clients, E \in 1..MaxLogEnd :
         \E L \in {x \in 0..E : x <= MaxLocal \/ E - x <= MaxBehind} :
            locals = EstimateLocals(client, L, E)
    /\ AuditIdle

EstimateDouble ==
    /\ locals.st = "double"
    /\ locals' = estimate_double(locals)
    /\ UNCHANGED <<log, coreVars, file, build, storeVars, treeVars, retry, signed, stamped, twin,
                   client_config, auditVars>>

EstimateSearch ==
    /\ locals.st = "search"
    /\ locals' = estimate_search(locals)
    /\ UNCHANGED <<log, coreVars, file, build, storeVars, treeVars, retry, signed, stamped, twin,
                   client_config, auditVars>>

EstimatePoll ==
    /\ locals.st = "poll"
    /\ locals' = estimate_poll(locals)
    /\ UNCHANGED <<log, coreVars, file, build, storeVars, treeVars, retry, signed, stamped, twin,
                   client_config, auditVars>>

NextEstimate ==
    \/ EstimateDouble
    \/ EstimateSearch
    \/ EstimatePoll

SpecEstimate == InitEstimate /\ [][NextEstimate]_vars

\* high - low is never taken with high below low, every pass of the search
\* narrows the interval, and what is returned is Ok(E).
LogEndFound(l) ==
    /\ l.st # "underflow"
    /\ l.shrinks
    /\ l.st # "err"
    /\ l.st = "ok" => l.ret = l.E

\* C37: for every local size L and every service log of fixed size E >= L,
\* E >= 1, estimate_log_end terminates and returns Ok(E), and high - low
\* never underflows.
C37_LogEnd == LogEndFound(locals)

\* The same for a local log that is behind the service, in bin/main.
C37_Behind == (locals.client = "bin/main" /\ locals.L < locals.E) => LogEndFound(locals)

\* The same without the return value: no underflow, and the search narrows.
C37_NoUnderflow == locals.st # "underflow" /\ locals.shrinks

\* The search ran and the end was found.
C37_Found ==
    /\ locals.st = "ok" /\ locals.ret = locals.E /\ locals.E > 1024 /\ locals.low > locals.L


-----------------------------------------------------------------------------
(* A second commit of the state that was committed last.                   *)

\* The bucket holds the object commit_head writes for the state.
CommittedIn(objects, head) ==
    /\ is_initialized(head)
    /\ Object(get_head_path(head).name, serialize_head(build, MacKey, head)) \in objects

\* C38: commit_head on a state identical to the state committed last
\* succeeds on the bucket backend: a commit_head of a state the bucket
\* already holds fails for no other reason than a failed request.
C38_Recommit ==
    (put.st = "err" /\ put.log # <<>> /\ CommittedIn(bucket, put.log[1])) => put.err = "io"

\* After the refused second commit get_head still returns the state.
C38_StillLoaded ==
    (/\ put.st = "err" /\ put.err = "precondition" /\ got.st = "ok"
     /\ got.objects = bucket /\ \A o \in bucket : Genuine(o))
        => got.log = put.log


-----------------------------------------------------------------------------
(* SameKey updates of a prefix tree whose one leaf has gone through many   *)
(* versions.  The size of the cache counts the updates applied; the        *)
(* SameKey arm reads it only for is_initialized, and it is kept small.     *)

MaxCalls == 2

\* The counters the leaf may stand at, and the counters an update may name.
CounterSamples == {0, 1, U32Max - 1, U32Max}

\* The proof of the one leaf of a tree: no copath, stand-ins from the seed.
LeafProof(index, counter, seed) == PrefixProof_real(PrefixLeaf(index, counter, 0), <<>>, seed)

\* The cache of a tree whose one leaf stands at counter.
LeafCache(index, counter, seed) ==
    [head |-> compute_root(LeafProof(index, counter, seed)), size |-> 1]

\* A SameKey update as try_from hands it to the cache.
SameKeyOf(index, counter, seed) ==
    [ok |-> TRUE, kind |-> "SameKey", real |-> TRUE, index |-> index, seed |-> seed,
     old_seed |-> 0, copath |-> <<>>, counter |-> counter, position |-> 0]

NoUpdate == <<>>

InitCounter ==
    /\ log = TransparencyLog_new
    /\ CoreIdle
    /\ file = NoFile
    /\ build = [bin |-> "main", dummy_mac |-> FALSE]
    /\ StoreIdle
    /\ TreeIdle
    /\ signed = NoSigned /\ stamped = NoStamp /\ twin = NoTwin
    /\ client_config = DefaultConfig
    /\ \E index \in Indexes, counter \in CounterSamples, s \in {1, 2}, checks \in BOOLEAN :
         locals = [fn |-> "PrefixTreeCache::apply_update", checks |-> checks,
                   cache |-> LeafCache(index, counter, s), calls |-> 0,
                   before |-> PrefixTreeCache_new, update |-> NoUpdate,
                   ret |-> [st |-> "none", err |-> ""]]
    /\ AuditIdle

\* PrefixTreeCache::apply_update with a SameKey update; an abort ends the
\* process.
CounterApply ==
    /\ locals.calls < MaxCalls
    /\ locals.ret.st # "panic"
    /\ \E index \in Indexes, counter \in CounterSamples, s \in {1, 2} :
        LET u == SameKeyOf(index, counter, s)
            r == PrefixTreeCache_apply_update(locals.cache, u, locals.checks)
        IN locals' = [locals EXCEPT !.before = locals.cache, !.update = u,
                                    !.cache = r.cache, !.calls = @ + 1,
                                    !.ret = [st |-> r.st, err |-> r.err]]
    /\ UNCHANGED <<log, coreVars, file, build, storeVars, treeVars, retry, signed, stamped, twin,
                   client_config, auditVars>>

NextCounter == CounterApply

SpecCounter == InitCounter /\ [][NextCounter]_vars

\* The last update was a SameKey update whose proof verified.
Verified ==
    /\ locals.update # NoUpdate
    /\ locals.before.head =
         compute_root(LeafProof(locals.update.index, locals.update.counter, locals.update.seed))

\* What the statement allows of the call: an error value, or the leaf
\* installed with the next counter, which is not 0.
NextCounterInstalled(u, cache0, cache1, ret) ==
    /\ ret.st \in {"ok", "err"}
    /\ ret.st = "err" => cache1 = cache0
    /\ ret.st = "ok" =>
         /\ cache1.head # compute_root(LeafProof(u.index, 0, u.seed))
         /\ u.counter < U32Max =>
              cache1.head = compute_root(LeafProof(u.index, u.counter + 1, u.seed))

\* C39: for every SameKey update whose proof verifies, the counter 2^32 - 1
\* included, apply_update returns an error value or installs the leaf with
\* the counter plus one; the counter never wraps to 0 and the call never
\* aborts.
C39_CounterArithmetic ==
    Verified => NextCounterInstalled(locals.update, locals.before, locals.cache, locals.ret)

\* The same for the counters below the largest.
C39_BelowMax ==
    (Verified /\ locals.update.counter < U32Max) =>
        NextCounterInstalled(locals.update, locals.before, locals.cache, locals.ret)

\* Two verified updates brought the leaf to the largest counter.
C39_AtMax ==
    /\ Verified /\ locals.calls = 2 /\ locals.ret.st = "ok"
    /\ locals.update.counter = U32Max - 1


-----------------------------------------------------------------------------
(* The progress report of run_audit's loop while it is syncing: the log    *)
(* grew by diff updates since the last report, elapsed (in milliseconds)   *)
(* ago.                                                                    *)

MaxDiff == 4
MaxElapsedSecs == 3
MaxInterval == 1
MaxLogEndReported == 6

\* Duration::as_secs of a time in milliseconds
millis_as_secs(ms) == ms \div 1000

\* (diff as f64 / elapsed.as_secs_f64()) as u64: the cast drops the fraction.
rate_as_u64(diff, elapsed_ms) == (diff * 1000) \div elapsed_ms

\* u64::saturating_sub
saturating_sub(a, b) == IF a >= b THEN a - b ELSE 0

\* The body of the report: the division by the truncated rate aborts when
\* the rate is 0, in every build.
report_progress(l) ==
    IF ~(millis_as_secs(l.elapsed_ms) > l.sync_progress_interval)
    THEN [l EXCEPT !.st = "skipped"]
    ELSE LET diff == l.size - l.progress
             rate == rate_as_u64(diff, l.elapsed_ms)
         IN IF rate = 0 THEN [l EXCEPT !.st = "panic", !.rate = rate, !.progress = l.size]
            ELSE [l EXCEPT !.st = "reported", !.rate = rate, !.progress = l.size,
                           !.remaining = saturating_sub(l.initial_log_end, l.size) \div rate]

InitReport ==
    /\ log = TransparencyLog_new
    /\ CoreIdle
    /\ file = NoFile
    /\ build = [bin |-> "main", dummy_mac |-> FALSE]
    /\ StoreIdle
    /\ TreeIdle
    /\ signed = NoSigned /\ stamped = NoStamp /\ twin = NoTwin
    /\ client_config = DefaultConfig
    /\ \E diff \in 0..MaxDiff, secs \in 0..MaxElapsedSecs, half \in {0, 500},
          interval \in 0..MaxInterval, end \in 1..MaxLogEndReported :
         /\ secs * 1000 + half > 0
         /\ locals = [fn |-> "run_audit: report progress", sync_progress_interval |-> interval,
                      elapsed_ms |-> secs * 1000 + half, progress |-> 1, size |-> 1 + diff,
                      initial_log_end |-> end, st |-> "applied", rate |-> 0, remaining |-> 0]
    /\ AuditIdle

Report ==
    /\ locals.st = "applied"
    /\ locals' = report_progress(locals)
    /\ UNCHANGED <<log, coreVars, file, build, storeVars, treeVars, retry, signed, stamped, twin,
                   client_config, auditVars>>

NextReport == Report

SpecReport == InitReport /\ [][NextReport]_vars

\* C40: the division (initial_log_end - progress) / (rate as u64) of the
\* progress report has a divisor that is not zero, also when fewer than one
\* update per second was applied.
C40_NonZeroDivisor == locals.st # "panic"

\* At one update per second or more the report is made.
C40_AtLeastOne ==
    (locals.st # "applied" /\ (locals.size - 1) * 1000 >= locals.elapsed_ms) => locals.st # "panic"

\* A report was made and the time remaining computed.
C40_Reported == locals.st = "reported" /\ locals.rate = 2 /\ locals.remaining = 1

=============================================================================
